---- MODULE Spec2Model ----
(***************************************************************************)
(* Model of the text-to-SQL assistant backend (src/server).                *)
(*                                                                         *)
(* The repository holds two applications over the same data model:        *)
(*   "main"     - the monolithic FastAPI app of main.py, whose handlers   *)
(*                talk to the ChromaDB_VectorStore of vectorDB/chroma.py;  *)
(*   "services" - the routers of routes/*.py, whose handlers are the      *)
(*                static methods of services/*.py and reach the            *)
(*                PostgresDB_VectorStore of vectorDB/postgres.py through   *)
(*                VectorService (vectorDB/factory.py knows no other type). *)
(* A deployment runs one of them; `app` records which.                     *)
(*                                                                         *)
(* The relational rows are handled through SQLAlchemy sessions.  The      *)
(* column Chat.query_history is a plain JSON column (models/models.py:28), *)
(* so a flush writes it only when the value assigned to the attribute     *)
(* differs from the value the attribute held before the assignment, the   *)
(* two being compared when the flush runs.  A list that was loaded,       *)
(* changed in place and assigned back is the same object on both sides of *)
(* that comparison and is therefore not written, unless flag_modified     *)
(* forces the write.  FlushJSON below is that rule.                       *)
(***************************************************************************)
EXTENDS Integers, Sequences, FiniteSets, TLC

(* ---------------------------- bounds ----------------------------------- *)
\* projects that may be created
MaxProjects == 2
\* chats that may be created
MaxChats == 1
\* history entries all chats may hold together
MaxHistory == 3
\* records the vector store may hold
MaxRecords == 2
\* items of one batch request
MaxBatch == 2

ProjectIds == 1..MaxProjects
ChatIds == 1..MaxChats

(* ------------------------- small input sets ---------------------------- *)
Questions == {"q1", "q2"}
\* texts a client may send as a question: two questions, the empty string
\* and a blank string
RequestTexts == Questions \cup {"", " "}
\* what the LLM may answer when it answers
LLMTexts == {"s1", " s2 "}
SQLTexts == {"s1", "s2"}
\* outcome of one call of the LLM: a provider error or a text
LLMError == "ProviderError"
LLMOutcomes == LLMTexts \cup {LLMError}
DDLTexts == {"d1", "d2"}
DocTexts == {"n1"}
Categories == {"sql", "ddl", "documentation"}

\* str.strip() on the texts above
strip(t) ==
    CASE t = " " -> ""
      [] t = " s2 " -> "s2"
      [] OTHER -> t

(* ------------------------ embedding provider --------------------------- *)
\* embed_query of the sentence-transformer model, tabulated on the texts
\* of the model: deterministic, non-zero, two components
EmbedText(t) ==
    CASE t = "q1" -> <<2, 1>>
      [] t = "q2" -> <<1, 2>>
      [] t = "d1" -> <<3, 1>>
      [] t = "d2" -> <<1, 3>>
      [] t = "n1" -> <<1, 1>>
      [] t = "s1" -> <<2, 0>>
      [] t = "s2" -> <<0, 2>>
      [] OTHER -> <<1, 0>>

VecAdd(a, b) == <<a[1] + b[1], a[2] + b[2]>>
Dot(a, b) == a[1] * b[1] + a[2] * b[2]

\* the text a question-SQL pair is embedded by: f"{question} {sql}" in
\* postgres.py:180, the JSON document in chroma.py:144-155
EmbedPair(q, s) == VecAdd(EmbedText(q), EmbedText(s))

(* ---------------------------- vector store ----------------------------- *)
\* configured result counts (db/config.py:29-32; the same defaults in
\* postgres.py:37-39 and chroma.py:42-44)
n_results_sql == 10
n_results_documentation == 10
n_results_ddl == 10

n_results(cat) ==
    CASE cat = "sql" -> n_results_sql
      [] cat = "ddl" -> n_results_ddl
      [] OTHER -> n_results_documentation

\* "no record id": the None the add methods return on failure
NoId == <<>>

\* One stored record.  text is the DDL text, the documentation text or the
\* question; sql is "" outside the sql category.
Record(id, pid, text, sql, emb) ==
    [id |-> id, project_id |-> pid, text |-> text, sql |-> sql, embedding |-> emb]

EmptyStore == [cat \in Categories |-> <<>>]

TotalRecords(st) == Len(st["sql"]) + Len(st["ddl"]) + Len(st["documentation"])

\* the scan without the filter on project_id
SelectSeq2_unfiltered(s, pid) == s

RECURSIVE SelectSeq2(_, _)
\* the records of project pid, in stored order: the .filter(project_id == ..)
\* of postgres.py and the where={"project_id": ..} of chroma.py
SelectSeq2(s, pid) ==
    IF s = <<>> THEN <<>>
    ELSE IF Head(s).project_id = pid
         THEN <<Head(s)>> \o SelectSeq2(Tail(s), pid)
         ELSE SelectSeq2(Tail(s), pid)

\* a comparison that also holds between equally similar vectors
_cosine_similarity_ge(q, a, b) ==
    Dot(q, a) * Dot(q, a) * Dot(b, b) >= Dot(q, b) * Dot(q, b) * Dot(a, a)

\* postgres.py:419-426: cosine similarity.  Ranking compares
\* dot(q,a)/(|q||a|) with dot(q,b)/(|q||b|); on the non-negative, non-zero
\* vectors of EmbedText that is the comparison of the squares below.
_cosine_similarity_gt(q, a, b) ==
    Dot(q, a) * Dot(q, a) * Dot(b, b) > Dot(q, b) * Dot(q, b) * Dot(a, a)

\* ChromaDB ranks by squared L2 distance (collection_metadata is None in
\* chroma.py:41, so the collections keep the default space)
L2(q, a) == (q[1] - a[1]) * (q[1] - a[1]) + (q[2] - a[2]) * (q[2] - a[2])
chroma_closer(q, a, b) == L2(q, a) < L2(q, b)

Better(backend, q, a, b) ==
    IF backend = "postgres"
    THEN _cosine_similarity_gt(q, a.embedding, b.embedding)
    ELSE chroma_closer(q, a.embedding, b.embedding)

RECURSIVE InsertRanked(_, _, _, _)
\* put x behind every element that is not worse than x (stable)
InsertRanked(backend, q, sorted, x) ==
    IF sorted = <<>> THEN <<x>>
    ELSE IF Better(backend, q, x, Head(sorted))
         THEN <<x>> \o sorted
         ELSE <<Head(sorted)>> \o InsertRanked(backend, q, Tail(sorted), x)

RECURSIVE SortRanked(_, _, _, _)
\* similarities.sort(key=..., reverse=True) of postgres.py:458: a stable
\* sort, best first; acc is the sorted prefix
SortRanked(backend, q, s, acc) ==
    IF s = <<>> THEN acc
    ELSE SortRanked(backend, q, Tail(s), InsertRanked(backend, q, acc, Head(s)))

Truncate(s, n) == IF Len(s) <= n THEN s ELSE SubSeq(s, 1, n)

\* postgres.py:428-529: _get_similar_sql_queries, _get_similar_ddl_statements
\* and _get_similar_documentation are the same scan over three tables
_get_similar(st, cat, query_embedding, pid, n) ==
    LET rows == SelectSeq2(st[cat], pid)
    IN  IF rows = <<>> THEN <<>>
        ELSE Truncate(SortRanked("postgres", query_embedding, rows, <<>>), n)

\* postgres.py:531-579: get_similar_question_sql, get_related_ddl,
\* get_related_documentation.  embOk = FALSE is a failing embedding call:
\* generate_embedding (postgres.py:68-75) turns it into [] and the lookup
\* answers [].
PgLookup(st, cat, question, pid, embOk) ==
    IF ~embOk THEN <<>>
    ELSE _get_similar(st, cat, EmbedText(question), pid, n_results(cat))

\* chroma.py:335-387: collection.query(query_texts=[question], n_results,
\* where={"project_id": project_id}); any exception, the failing embedding
\* call included, is caught and answered with []
ChromaLookup(st, cat, question, pid, embOk) ==
    IF ~embOk THEN <<>>
    ELSE Truncate(SortRanked("chroma", EmbedText(question),
                             SelectSeq2(st[cat], pid), <<>>), n_results(cat))

HasId(s, id) == \E i \in 1..Len(s) : s[i].id = id

RecordEmbedding(cat, text, sql) ==
    IF cat = "sql" THEN EmbedPair(text, sql) ELSE EmbedText(text)

\* an add that stores the record with a zero vector when the embedding
\* call fails
PgAdd_zero_vector(st, projs, cat, text, sql, pid, embOk, fresh) ==
    IF pid \notin projs THEN [store |-> st, id |-> NoId]
    ELSE [store |-> [st EXCEPT ![cat] =
                        Append(@, Record(<<fresh>>, pid, text, sql,
                                         IF embOk
                                         THEN RecordEmbedding(cat, text, sql)
                                         ELSE <<0, 0>>))],
          id |-> <<fresh>>]

\* postgres.py:158-292: add_question_sql, add_ddl, add_documentation.
\* The row id is the column default uuid.uuid4 (vectorDbModels.py:12,27,41):
\* a fresh id on every insert, here the counter value fresh.
\* Result: the store afterwards and the id returned (NoId for None).
PgAdd(st, projs, cat, text, sql, pid, embOk, fresh) ==
    IF pid \notin projs THEN [store |-> st, id |-> NoId]
    ELSE IF ~embOk THEN [store |-> st, id |-> NoId]
    ELSE [store |-> [st EXCEPT ![cat] =
                        Append(@, Record(<<fresh>>, pid, text, sql,
                                         RecordEmbedding(cat, text, sql)))],
          id |-> <<fresh>>]

\* vectorDB/utils.py:4-29 with the "-sql" / "-ddl" / "-doc" suffix of
\* chroma.py:152,170,188: the id is a function of the document alone (the
\* digest is taken to be collision-free on the texts of the model).  The
\* document of a question-SQL pair is the JSON of question, sql and
\* project_id; that of a DDL or documentation item is the bare text.
deterministic_uuid(cat, text, sql, pid) ==
    CASE cat = "sql" -> <<<<text, sql, pid>>, "-sql">>
      [] cat = "ddl" -> <<text, "-ddl">>
      [] OTHER -> <<text, "-doc">>

(* ------------------------------- state --------------------------------- *)
VARIABLES
    app,        \* "main" or "services": the application this deployment runs
    projects,   \* ids of the rows of table projects
    sample_queries, \* column projects.sample_queries: project id -> dict,
                \* a dict being the sequence of its <<key, value>> items
    chats,      \* rows of table chats: chat id -> row
    store,      \* the vector store: category -> records in insertion order
    nextUuid,   \* stands for uuid.uuid4(): the next id never handed out yet
    resp,       \* the request served last and its answer
    mig,        \* the ChromaDB_VectorStore object that migrates: its
                \* embedding function and the progress of migrate_embeddings
    inflight    \* the chat requests being served step by step, each in a
                \* session of its own: slot -> what the request has loaded

vars == <<app, projects, sample_queries, chats, store, nextUuid, resp, mig, inflight>>

\* chroma.py:27-30, :39: the embedding function of a store made without
\* one is default_ef; "other" stands for a function handed to
\* migrate_embeddings, of another output dimension
EmbeddingFunctions == {"default_ef", "other"}

EmbedWith(ef, v) == IF ef = "default_ef" THEN v ELSE Append(v, 1)

\* an add that embeds with default_ef whatever function the store has
ChromaAdd_default_ef(st, cat, text, sql, pid, embOk) ==
    LET id == deterministic_uuid(cat, text, sql, pid)
    IN  IF ~embOk THEN [store |-> st, id |-> NoId]
        ELSE IF HasId(st[cat], id) THEN [store |-> st, id |-> id]
        ELSE [store |-> [st EXCEPT ![cat] =
                            Append(@, Record(id, pid, text, sql,
                                             RecordEmbedding(cat, text, sql)))],
              id |-> id]

\* chroma.py:138-198: add_question_sql, add_ddl, add_documentation, each
\* embedding the document with self.generate_embedding (:132-136), the
\* function the store has at the time.  collection.add leaves a record
\* whose id is already in the collection as it is; an exception (the
\* embedding call) is caught and answered None.
ChromaAdd(st, cat, text, sql, pid, embOk) ==
    LET id == deterministic_uuid(cat, text, sql, pid)
    IN  IF ~embOk THEN [store |-> st, id |-> NoId]
        ELSE IF HasId(st[cat], id) THEN [store |-> st, id |-> id]
        ELSE [store |-> [st EXCEPT ![cat] =
                            Append(@, Record(id, pid, text, sql,
                                EmbedWith(mig.embedding_function,
                                          RecordEmbedding(cat, text, sql))))],
              id |-> id]

\* postgres.py:581-670: get_all_documentation / get_all_question_sql /
\* get_all_ddl, the listing of one project's records of a category
ListAll(s, pid) == SelectSeq2(s, pid)

\* Chat.feedback_enabled is a nullable Boolean (models/models.py:30)
TriState == {"unset", "true", "false"}

\* one element of Chat.query_history; is_correct = "unset" is a dict without
\* the key (the timestamp key is written and never read, and is left out)
Entry(text, sql, ic) == [text |-> text, sql |-> sql, is_correct |-> ic]

\* a row of table chats; query_history NULL and [] are both <<>>: every
\* reader uses `not history` or `history or []`
ChatRow(pid, history, fe) ==
    [project_id |-> pid, query_history |-> history, feedback_enabled |-> fe]

\* histories a client may send in a request body (ChatCreate.query_history,
\* PATCH {"query_history": ...})
PatchHistories ==
    { <<>>,
      <<Entry("q1", "s1", "unset")>>,
      <<Entry("q1", "s1", "unset"), Entry("q2", "s2", "unset")>> }

RECURSIVE TotalEntries(_, _)
\* the number of history entries the chats 1..n hold together
TotalEntries(rows, n) ==
    IF n = 0 THEN 0
    ELSE (IF n \in DOMAIN rows THEN Len(rows[n].query_history) ELSE 0)
         + TotalEntries(rows, n - 1)

\* the chat id a new row gets: ids are handed out in increasing order
NewChatId(rows, c) ==
    /\ c \in ChatIds \ DOMAIN rows
    /\ \A x \in ChatIds \ DOMAIN rows : c <= x

(* ----------------------- SQLAlchemy unit of work ----------------------- *)
\* a flush that writes the column on every assignment
FlushJSON_always(db, committed, current) == current

\* What a flush leaves in a JSON column: db is the stored value, committed
\* the value (as it is when the flush runs) of the object the attribute held
\* before the assignment, current the value assigned.  Equal values are not
\* written.
FlushJSON(db, committed, current) ==
    IF current = committed THEN db ELSE current

\* a Python dict as the sequence of its items: d[k] = v keeps the place of
\* a key the dict already holds and puts a new key last
DictHas(d, k) == \E i \in 1..Len(d) : d[i][1] = k

DictSet(d, k, v) ==
    IF DictHas(d, k)
    THEN [i \in 1..Len(d) |-> IF d[i][1] = k THEN <<k, v>> ELSE d[i]]
    ELSE Append(d, <<k, v>>)

RECURSIVE DictUpdate(_, _)
\* d.update(items), also {**d, **items}: the items are set in their order
DictUpdate(d, items) ==
    IF items = <<>> THEN d
    ELSE DictUpdate(DictSet(d, items[1][1], items[1][2]), Tail(items))

NoResp ==
    [op |-> "none", status |-> 0, project |-> 0, chat |-> 0, text |-> "",
     is_correct |-> FALSE, add_to_samples |-> FALSE, sql |-> "",
     items |-> <<>>, ids |-> <<>>,
     has_query_history |-> FALSE,
     lookups |-> 0, embeds |-> 0, llm_calls |-> 0, llm_error |-> FALSE,
     \* the arguments of the generator call
     schema |-> "", documentation |-> "", samples |-> <<>>,
     \* the prompt handed to the LLM, as the sequence of its parts
     prompt |-> <<>>,
     \* one of the lookups of the request failed inside the store
     lookup_failed |-> FALSE,
     \* of a migration: its result, the count it prints and, for each
     \* category, the position of the document whose embedding call
     \* raised (0: none)
     returned |-> "none", restored_count |-> 0,
     \* of a direct call of an add method: the embedding call failed
     embed_failed |-> FALSE,
     raised |-> [cat \in Categories |-> 0]]

\* no migration under way: pc is the place migrate_embeddings has reached,
\* existing_data and restored_count are its locals
NoMigration ==
    [embedding_function |-> "default_ef", pc |-> "idle",
     existing_data |-> EmptyStore, restored_count |-> 0]

\* the requests that can be in flight together
Slots == {1, 2}

\* a slot without a request
NoCall ==
    [pc |-> "idle", kind |-> "none", chat |-> 0, loaded |-> <<>>,
     text |-> "", sql |-> ""]

Init ==
    /\ app \in {"main", "services"}
    /\ projects = {}
    /\ sample_queries = [p \in ProjectIds |-> <<>>]
    /\ chats = << >>
    /\ store = EmptyStore
    /\ nextUuid = 1
    /\ resp = NoResp
    /\ mig = NoMigration
    /\ inflight = [k \in Slots |-> NoCall]

(* ------------------------- projects and chats -------------------------- *)
\* main.py:48-54 and project_service.py:12-27 (routes/projects.py:16-19)
create_project ==
    \E p \in ProjectIds \ projects :
        \* ids are handed out in increasing order
        /\ \A x \in ProjectIds \ projects : p <= x
        /\ projects' = projects \cup {p}
        /\ resp' = [NoResp EXCEPT !.op = "create_project", !.status = 200,
                                  !.project = p]
        /\ UNCHANGED <<app, mig, inflight, sample_queries, chats, store, nextUuid>>

\* main.py:156-166 and project_chat_service.py:19-26
create_project_chat ==
    \E p \in ProjectIds :
        IF p \notin projects
        THEN /\ resp' = [NoResp EXCEPT !.op = "create_project_chat",
                                       !.status = 404, !.project = p]
             /\ UNCHANGED <<app, mig, inflight, projects, sample_queries, chats, store, nextUuid>>
        ELSE \E c \in ChatIds :
                /\ NewChatId(chats, c)
                /\ chats' = [x \in DOMAIN chats \cup {c} |->
                                IF x = c THEN ChatRow(p, <<>>, "unset")
                                ELSE chats[x]]
                /\ resp' = [NoResp EXCEPT !.op = "create_project_chat",
                                          !.status = 200, !.project = p,
                                          !.chat = c]
                /\ UNCHANGED <<app, mig, inflight, projects, sample_queries, store, nextUuid>>

\* main.py:168-178 and chat_service.py:21-28 (routes/chats.py:19-22): the
\* body is a ChatCreate (schemas.py:32-38), which carries query_history and
\* feedback_enabled
create_chat ==
    /\ \E p \in ProjectIds, h \in PatchHistories, fe \in TriState :
        IF p \notin projects
        THEN /\ resp' = [NoResp EXCEPT !.op = "create_chat", !.status = 404,
                                       !.project = p]
             /\ UNCHANGED <<app, mig, inflight, projects, sample_queries, chats, store, nextUuid>>
        ELSE \E c \in ChatIds :
                /\ NewChatId(chats, c)
                /\ TotalEntries(chats, MaxChats) + Len(h) <= MaxHistory
                /\ chats' = [x \in DOMAIN chats \cup {c} |->
                                IF x = c THEN ChatRow(p, h, fe) ELSE chats[x]]
                /\ resp' = [NoResp EXCEPT !.op = "create_chat", !.status = 200,
                                          !.project = p, !.chat = c]
                /\ UNCHANGED <<app, mig, inflight, projects, sample_queries, store, nextUuid>>

(* --------------------- adding to the vector store ---------------------- *)
\* an item of a request: text and sql (sql = "" for DDL and documentation)
Items(cat) ==
    CASE cat = "sql" -> {<<q, s>> : q \in Questions, s \in SQLTexts}
      [] cat = "ddl" -> {<<d, "">> : d \in DDLTexts}
      [] OTHER -> {<<d, "">> : d \in DocTexts}

Batches(cat) == UNION {[1..n -> Items(cat)] : n \in 0..MaxBatch}

RECURSIVE AddBatch_continue(_, _, _, _, _, _, _, _)
\* a loop that goes on with the next item after one that failed
AddBatch_continue(st, projs, cat, items, oks, pid, fresh, ids) ==
    IF items = <<>> THEN [store |-> st, ids |-> ids, failed |-> FALSE,
                          fresh |-> fresh]
    ELSE LET r == PgAdd(st, projs, cat, Head(items)[1], Head(items)[2], pid,
                        Head(oks), fresh)
         IN  IF r.id = NoId
             THEN [AddBatch_continue(st, projs, cat, Tail(items), Tail(oks),
                                     pid, fresh, ids)
                     EXCEPT !.failed = TRUE]
             ELSE AddBatch_continue(r.store, projs, cat, Tail(items),
                                    Tail(oks), pid, fresh + 1,
                                    Append(ids, r.id))

RECURSIVE AddBatch(_, _, _, _, _, _, _, _)
\* project_service.py:105-114, 129-138, 153-162: the loop over the items
\* of a batch; it raises (failed) at the first item the store answers None
\* for.  oks[i] tells whether the embedding call for item i succeeds.
AddBatch(st, projs, cat, items, oks, pid, fresh, ids) ==
    IF items = <<>> THEN [store |-> st, ids |-> ids, failed |-> FALSE,
                          fresh |-> fresh]
    ELSE LET r == PgAdd(st, projs, cat, Head(items)[1], Head(items)[2], pid,
                        Head(oks), fresh)
         IN  IF r.id = NoId
             THEN [store |-> st, ids |-> ids, failed |-> TRUE, fresh |-> fresh]
             ELSE AddBatch(r.store, projs, cat, Tail(items), Tail(oks), pid,
                           fresh + 1, Append(ids, r.id))

\* project_service.py:95-165: add_documentation_items,
\* add_question_sql_pairs, add_ddl_statements
ProjectService_add_items(cat, opname) ==
    /\ app = "services"
    /\ \E p \in ProjectIds, items \in Batches(cat) :
        \E oks \in [1..Len(items) -> BOOLEAN] :
        /\ TotalRecords(store) + Len(items) <= MaxRecords
        /\ IF p \notin projects
           THEN /\ resp' = [NoResp EXCEPT !.op = opname, !.status = 404,
                                          !.project = p]
                /\ UNCHANGED <<store, nextUuid>>
           ELSE LET r == AddBatch(store, projects, cat, items, oks, p,
                                  nextUuid, <<>>)
                IN  /\ store' = r.store
                    /\ nextUuid' = r.fresh
                    /\ resp' = [NoResp EXCEPT
                                  !.op = opname,
                                  !.status = IF r.failed THEN 500 ELSE 200,
                                  !.project = p, !.items = items,
                                  \* one VectorService.add_* call for each
                                  \* item up to the one that fails
                                  !.embeds = Len(r.ids)
                                             + (IF r.failed THEN 1 ELSE 0),
                                  !.ids = IF r.failed THEN <<>> ELSE r.ids]
        /\ UNCHANGED <<app, mig, inflight, projects, sample_queries, chats>>

ProjectService_add_documentation_items ==
    ProjectService_add_items("documentation", "add_documentation_items")

ProjectService_add_question_sql_pairs ==
    ProjectService_add_items("sql", "add_question_sql_pairs")

ProjectService_add_ddl_statements ==
    ProjectService_add_items("ddl", "add_ddl_statements")

\* main.py:73-90 and main.py:122-139: update_documentation and add_ddl
\* store one text in the Chroma store and answer 500 when no id comes back
main_add_one(cat, opname) ==
    /\ app = "main"
    /\ TotalRecords(store) < MaxRecords
    /\ \E p \in ProjectIds, item \in Items(cat), embOk \in BOOLEAN :
        IF p \notin projects
        THEN /\ resp' = [NoResp EXCEPT !.op = opname, !.status = 404,
                                       !.project = p]
             /\ UNCHANGED <<app, mig, inflight, projects, sample_queries, chats, store, nextUuid>>
        ELSE LET r == ChromaAdd(store, cat, item[1], item[2], p, embOk)
             IN  /\ store' = r.store
                 /\ resp' = [NoResp EXCEPT
                               !.op = opname,
                               !.status = IF r.id = NoId THEN 500 ELSE 200,
                               !.project = p, !.items = <<item>>,
                               !.ids = IF r.id = NoId THEN <<>> ELSE <<r.id>>]
                 /\ UNCHANGED <<app, mig, inflight, projects, sample_queries, chats, nextUuid>>

main_update_documentation == main_add_one("documentation", "update_documentation")

main_add_ddl == main_add_one("ddl", "add_ddl")

RECURSIVE StoreSamples(_, _, _, _, _)
\* main.py:106-114: the loop over request.sample_queries; a pair the store
\* answers None for is skipped
StoreSamples(st, items, oks, pid, ids) ==
    IF items = <<>> THEN [store |-> st, ids |-> ids]
    ELSE LET r == ChromaAdd(st, "sql", Head(items)[1], Head(items)[2], pid,
                            Head(oks))
         IN  StoreSamples(r.store, Tail(items), Tail(oks), pid,
                          IF r.id = NoId THEN ids ELSE Append(ids, r.id))

\* the keys of a dict are distinct
DistinctQuestions(items) ==
    \A i, j \in 1..Len(items) : i # j => items[i][1] # items[j][1]

\* main.py:92-120
main_add_sample_queries ==
    /\ app = "main"
    /\ \E p \in ProjectIds, items \in Batches("sql") :
        \E oks \in [1..Len(items) -> BOOLEAN] :
        /\ DistinctQuestions(items)
        /\ TotalRecords(store) + Len(items) <= MaxRecords
        /\ IF p \notin projects
           THEN /\ resp' = [NoResp EXCEPT !.op = "add_sample_queries",
                                          !.status = 404, !.project = p]
                /\ UNCHANGED <<store, sample_queries>>
           ELSE LET r == StoreSamples(store, items, oks, p, <<>>)
                    \* :99-102: `project.sample_queries or {}` is the dict
                    \* loaded unless that is None or empty; update() changes
                    \* it in place and :101 assigns it back
                    loaded == sample_queries[p]
                    current_samples == DictUpdate(loaded, items)
                    committed == IF loaded = <<>> THEN loaded
                                 ELSE current_samples
                IN  /\ store' = r.store
                    /\ sample_queries' = [sample_queries EXCEPT ![p] =
                          FlushJSON(loaded, committed, current_samples)]
                    /\ resp' = [NoResp EXCEPT
                                  !.op = "add_sample_queries",
                                  !.status = IF r.ids = <<>> THEN 500 ELSE 200,
                                  !.project = p, !.items = items,
                                  !.ids = r.ids]
        /\ UNCHANGED <<app, mig, inflight, projects, chats, nextUuid>>

(* ---------------------- calls on the store object ---------------------- *)
\* None and SQL NULL: a project id left out of a call, and the project_id
\* of a chat whose project row an ORM delete removed (the relationship
\* Project.chats, models.py:17, has no delete cascade, so the flush of
\* session.delete(project) sets the column to NULL)
NULL == 0

\* The methods of the two store classes called directly, as
\* test_vector_db_logic.py:55-76 and :143-149 call them: with a project id
\* of the caller's choice, NULL standing for the argument left out.
CallerProjectIds == ProjectIds \cup {NULL}

OpOfCategory(cat) ==
    CASE cat = "sql" -> "add_question_sql"
      [] cat = "ddl" -> "add_ddl"
      [] OTHER -> "add_documentation"

\* postgres.py:158-292: `if not project_id` and the missing project row
\* raise ValueError inside the try, an empty embedding returns None
PostgresDB_VectorStore_add(cat) ==
    /\ app = "services"
    /\ TotalRecords(store) < MaxRecords
    /\ \E pid \in CallerProjectIds, item \in Items(cat), embOk \in BOOLEAN :
        LET r == PgAdd(store, projects, cat, item[1], item[2], pid, embOk,
                       nextUuid)
        IN  /\ store' = r.store
            /\ nextUuid' = IF r.id = NoId THEN nextUuid ELSE nextUuid + 1
            /\ resp' = [NoResp EXCEPT
                          !.op = OpOfCategory(cat), !.project = pid,
                          !.items = <<item>>,
                          !.ids = IF r.id = NoId THEN <<>> ELSE <<r.id>>,
                          !.embeds = IF pid \in projects THEN 1 ELSE 0,
                          !.embed_failed = (pid \in projects /\ ~embOk)]
            /\ UNCHANGED <<app, mig, inflight, projects, sample_queries, chats>>

\* chroma.py:138-198: no check of the project.  With the project id left
\* out the metadata is {"project_id": None}, which collection.add rejects
\* or stores depending on the chromadb release (noneOk).
ChromaDB_VectorStore_add(cat) ==
    /\ app = "main"
    /\ TotalRecords(store) < MaxRecords
    /\ \E pid \in CallerProjectIds, item \in Items(cat), embOk \in BOOLEAN :
        \E noneOk \in (IF pid = NULL THEN BOOLEAN ELSE {TRUE}) :
        LET r == IF noneOk
                 THEN ChromaAdd(store, cat, item[1], item[2], pid, embOk)
                 ELSE [store |-> store, id |-> NoId]
        IN  /\ store' = r.store
            /\ resp' = [NoResp EXCEPT
                          !.op = OpOfCategory(cat), !.project = pid,
                          !.items = <<item>>,
                          !.ids = IF r.id = NoId THEN <<>> ELSE <<r.id>>,
                          !.embeds = 1,
                          !.embed_failed = ~embOk]
            /\ UNCHANGED <<app, mig, inflight, projects, sample_queries, chats, nextUuid>>

\* the ids a caller may hand to remove_training_data, in the store or
\* not: the ids of the Postgres store (kind "uuid") and, for each
\* category, the ids of the Chroma store
IdKinds == Categories \cup {"uuid"}

RecordIds(kind) ==
    IF kind = "uuid" THEN {<<n>> : n \in 1..(MaxRecords + 1)}
    ELSE {deterministic_uuid(kind, item[1], item[2], pid) :
             item \in Items(kind), pid \in ProjectIds}

Without(coll, id) == SelectSeq(coll, LAMBDA r : r.id # id)

\* postgres.py:361-376: the filters name SQLQuery.uuid, DDLStatement.uuid
\* and DocumentationItem.uuid; the models have no such attribute
\* (vectorDbModels.py:8-49), so the first filter raises AttributeError and
\* the except clause answers False
PostgresDB_VectorStore_remove_training_data ==
    /\ app = "services"
    /\ \E kind \in IdKinds : \E id \in RecordIds(kind) :
        /\ resp' = [NoResp EXCEPT !.op = "remove_training_data",
                                  !.ids = <<id>>, !.returned = "False"]
        /\ UNCHANGED <<app, mig, inflight, projects, sample_queries, chats, store, nextUuid>>

\* the suffix of a Chroma id and the collection it names
SuffixCategory(id) ==
    IF Len(id) # 2 THEN "none"
    ELSE CASE id[2] = "-sql" -> "sql"
           [] id[2] = "-ddl" -> "ddl"
           [] id[2] = "-doc" -> "documentation"
           [] OTHER -> "none"

\* chroma.py:265-276: the suffix of the id picks the collection,
\* collection.delete(ids=id) removes the record if there is one, and the
\* answer is True for every id with one of the three suffixes
ChromaDB_VectorStore_remove_training_data ==
    /\ app = "main"
    /\ \E kind \in IdKinds : \E id \in RecordIds(kind) :
        LET cat == SuffixCategory(id)
        IN  /\ store' = IF cat = "none" THEN store
                        ELSE [store EXCEPT ![cat] = Without(@, id)]
            /\ resp' = [NoResp EXCEPT
                          !.op = "remove_training_data", !.ids = <<id>>,
                          !.returned = IF cat = "none" THEN "False"
                                       ELSE "True"]
            /\ UNCHANGED <<app, mig, inflight, projects, sample_queries, chats, nextUuid>>

(* ------------------------- deleting a project -------------------------- *)
\* repositories.py:51: limit: int = 50
get_chats_limit == 50

\* repositories.py:50-58: the chats of the project, highest id first, at
\* most limit of them
get_chats_by_project(rows, pid) ==
    {c \in DOMAIN rows :
        /\ rows[c].project_id = pid
        /\ Cardinality({d \in DOMAIN rows :
                           rows[d].project_id = pid /\ d > c})
             < get_chats_limit}

\* session.delete(project) and commit: the rows of sql_queries,
\* ddl_statements and documentation_items go with the project (cascade
\* "all, delete-orphan", models.py:19-21)
WithoutRecords(st, pid) ==
    [cat \in Categories |->
        SelectSeq(st[cat], LAMBDA r : r.project_id # pid)]

\* the same flush for the chats: project_id becomes NULL
WithoutOwner(rows, pid) ==
    [c \in DOMAIN rows |->
        IF rows[c].project_id = pid
        THEN [rows[c] EXCEPT !.project_id = NULL] ELSE rows[c]]

\* project_service.py:65-93 (routes/projects.py:31-34).  The store's
\* delete_project (postgres.py:137-156) deletes the project row in a
\* session of its own; vecOk = FALSE is that call failing, which it
\* answers with False and the service ignores (:76-81).  Then the chats
\* get_chats_by_project finds are deleted (:84-87) and the project is
\* deleted in the request's session (:90).
delete_project ==
    /\ app = "services"
    /\ \E p \in ProjectIds, vecOk \in BOOLEAN :
        IF p \notin projects
        THEN /\ resp' = [NoResp EXCEPT !.op = "delete_project",
                                       !.status = 404, !.project = p]
             /\ UNCHANGED <<app, mig, inflight, projects, sample_queries, chats, store, nextUuid>>
        ELSE LET after_store == IF vecOk THEN WithoutOwner(chats, p)
                                ELSE chats
                 found == get_chats_by_project(after_store, p)
                 after_chats == [c \in DOMAIN after_store \ found |->
                                   after_store[c]]
             IN  /\ projects' = projects \ {p}
                 /\ store' = WithoutRecords(store, p)
                 /\ chats' = WithoutOwner(after_chats, p)
                 /\ resp' = [NoResp EXCEPT !.op = "delete_project",
                                           !.status = 200, !.project = p]
                 /\ UNCHANGED <<app, mig, inflight, sample_queries, nextUuid>>

(* --------------------- reading and deleting by id ---------------------- *)
\* main.py:63-71 and project_service.py:34-62: GET /projects/{project_id}
\* answers 404 for a project without a row, else the project; nothing is
\* written
get_project ==
    /\ \E p \in ProjectIds :
        resp' = [NoResp EXCEPT !.op = "get_project", !.project = p,
                               !.status = IF p \in projects THEN 200 ELSE 404]
    /\ UNCHANGED <<app, mig, inflight, projects, sample_queries, chats, store,
                   nextUuid>>

\* main.py:180-185 and chat_service.py:13-19: GET /chats/{chat_id}
get_chat ==
    /\ \E c \in ChatIds :
        resp' = [NoResp EXCEPT !.op = "get_chat", !.chat = c,
                               !.status = IF c \in DOMAIN chats THEN 200
                                          ELSE 404]
    /\ UNCHANGED <<app, mig, inflight, projects, sample_queries, chats, store,
                   nextUuid>>

DeleteOfCategory(cat) ==
    CASE cat = "sql" -> "delete_question_sql_item"
      [] cat = "ddl" -> "delete_ddl_item"
      [] OTHER -> "delete_documentation_item"

\* project_service.py:167-201: the HTTPException(404) raised for
\* success = False is raised inside the try block; `except Exception`
\* catches it and raises HTTPException(500) in its place
delete_item_status(success) == IF success THEN 200 ELSE 500

\* project_service.py:167-201 with vector_service.py:171-187: the three
\* handlers call remove_training_data of the Postgres store
\* (postgres.py:361-376), which answers False and deletes nothing
ProjectService_delete_item(cat) ==
    /\ app = "services"
    /\ \E kind \in IdKinds : \E item_id \in RecordIds(kind) :
        LET success == FALSE
        IN  resp' = [NoResp EXCEPT !.op = DeleteOfCategory(cat),
                                   !.ids = <<item_id>>,
                                   !.status = delete_item_status(success)]
    /\ UNCHANGED <<app, mig, inflight, projects, sample_queries, chats, store,
                   nextUuid>>

(* -------------------- migration of the embeddings ---------------------- *)
\* chroma.py:406-434: collection.get() of the three collections answers
\* the ids, the documents and the metadatas of the records, not their
\* embeddings; a collection without documents gets no key in
\* existing_data, here the empty sequence
Backup(st) ==
    [cat \in Categories |->
        [i \in 1..Len(st[cat]) |-> [st[cat][i] EXCEPT !.embedding = <<>>]]]

RECURSIVE Restore(_, _, _, _, _)
\* chroma.py:452-464, :469-481, :486-498: the loop that adds the records
\* of one category to its collection coll with the id, the document and
\* the metadata saved and generate_embedding(doc).  failAt = k > 0 is an
\* embedding call that raises for the k-th document: the except clause
\* is outside the loop, so the loop ends there.  An id the collection
\* holds is not added again.
Restore(coll, cat, data, ef, failAt) ==
    IF data = <<>> \/ failAt = 1 THEN coll
    ELSE LET r == data[1]
             rec == [r EXCEPT !.embedding =
                       EmbedWith(ef, RecordEmbedding(cat, r.text, r.sql))]
         IN  Restore(IF HasId(coll, r.id) THEN coll ELSE Append(coll, rec),
                     cat, Tail(data), ef,
                     IF failAt = 0 THEN 0 ELSE failAt - 1)

\* chroma.py:465, :482, :499: restored_count grows by the length of a
\* category whose loop ran to its end
Restored(data, failAt) == IF failAt = 0 THEN Len(data) ELSE 0

\* where the embedding calls of a migration raise: for each category the
\* position of the document, 0 for none
FailurePoints(existing_data) ==
    {f \in [Categories -> 0..MaxRecords] :
        \A cat \in Categories : f[cat] <= Len(existing_data[cat])}

\* chroma.py:389-504 called while nothing else uses the store: the
\* embedding function is replaced when one is given (:400-401), the
\* collections are saved (:406-434), deleted (:436-443) and made again
\* (:446), the records are added again (:448-500); the result is True
\* (:503) whatever the loops did.
migrate_embeddings ==
    /\ app = "main"
    /\ mig.pc = "idle"
    /\ \E new_embedding_function \in {"None"} \cup EmbeddingFunctions :
        LET ef == IF new_embedding_function = "None"
                  THEN mig.embedding_function
                  ELSE new_embedding_function
            existing_data == Backup(store)
        IN  \E failAt \in FailurePoints(existing_data) :
            /\ store' = [cat \in Categories |->
                           Restore(<<>>, cat, existing_data[cat], ef,
                                   failAt[cat])]
            /\ mig' = [NoMigration EXCEPT !.embedding_function = ef]
            /\ resp' = [NoResp EXCEPT
                          !.op = "migrate_embeddings",
                          !.restored_count =
                              Restored(existing_data["sql"], failAt["sql"])
                              + Restored(existing_data["ddl"], failAt["ddl"])
                              + Restored(existing_data["documentation"],
                                         failAt["documentation"]),
                          !.returned = "True",
                          !.raised = failAt]
            /\ UNCHANGED <<app, inflight, projects, sample_queries, chats, nextUuid>>

\* migrate_embeddings taken in the steps between which other calls on the
\* store can run; nothing in chroma.py:389-507 takes a lock.
\* First :400-434: the embedding function is replaced and the three
\* collections are read into existing_data.
migrate_begin ==
    /\ app = "main"
    /\ mig.pc = "idle"
    /\ \E new_embedding_function \in {"None"} \cup EmbeddingFunctions :
        mig' = [mig EXCEPT
                  !.embedding_function =
                      IF new_embedding_function = "None" THEN @
                      ELSE new_embedding_function,
                  !.pc = "backed_up",
                  !.existing_data = Backup(store)]
    /\ UNCHANGED <<app, inflight, projects, sample_queries, chats, store,
                   nextUuid, resp>>

\* then :436-446: the collections are deleted and made again, empty
migrate_delete ==
    /\ mig.pc = "backed_up"
    /\ store' = EmptyStore
    /\ mig' = [mig EXCEPT !.pc = "deleted"]
    /\ UNCHANGED <<app, inflight, projects, sample_queries, chats, nextUuid,
                   resp>>

\* then :448-503: the saved records are added to the collections as they
\* are by then, and True is returned
migrate_restore ==
    /\ mig.pc = "deleted"
    /\ \E failAt \in FailurePoints(mig.existing_data) :
        /\ store' = [cat \in Categories |->
                       Restore(store[cat], cat, mig.existing_data[cat],
                               mig.embedding_function, failAt[cat])]
        /\ resp' = [NoResp EXCEPT
                      !.op = "migrate_embeddings",
                      !.restored_count =
                          Restored(mig.existing_data["sql"], failAt["sql"])
                          + Restored(mig.existing_data["ddl"], failAt["ddl"])
                          + Restored(mig.existing_data["documentation"],
                                     failAt["documentation"]),
                      !.returned = "True",
                      !.raised = failAt]
    /\ mig' = [NoMigration EXCEPT
                 !.embedding_function = mig.embedding_function]
    /\ UNCHANGED <<app, inflight, projects, sample_queries, chats, nextUuid>>

LookupOfCategory(cat) ==
    CASE cat = "sql" -> "get_similar_question_sql"
      [] cat = "ddl" -> "get_related_ddl"
      [] OTHER -> "get_related_documentation"

\* chroma.py:305-387 called directly: the answer is kept as the ids of
\* the records found
ChromaDB_VectorStore_lookup(cat) ==
    /\ app = "main"
    /\ \E pid \in ProjectIds, question \in Questions, embOk \in BOOLEAN :
        LET found == ChromaLookup(store, cat, question, pid, embOk)
        IN  resp' = [NoResp EXCEPT
                       !.op = LookupOfCategory(cat), !.project = pid,
                       !.text = question, !.lookups = 1, !.embeds = 1,
                       !.embed_failed = ~embOk,
                       !.ids = [i \in 1..Len(found) |-> found[i].id]]
    /\ UNCHANGED <<app, mig, inflight, projects, sample_queries, chats, store,
                   nextUuid>>

(* ------------------------- SQL generation ------------------------------ *)
\* llm.py:35-80: BedrockClient.generate_text answers
\* response["output"]["message"]["content"][0]["text"], a str.
\* sql_generator.py:84 and :161 then read response.usage of that str inside
\* the try block; a str has no such attribute.
str_has_usage == FALSE

\* generate_sql_query with an except clause that logs and returns what it
\* has instead of raising
generate_sql_query_swallow(query_text, llm) ==
    IF strip(query_text) = ""
    THEN [ok |-> FALSE, sql |-> "", llm_calls |-> 0]
    ELSE [ok |-> TRUE, sql |-> IF llm = LLMError THEN "" ELSE strip(llm),
          llm_calls |-> 1]

\* sql_generator.py:17-90 generate_sql_query and :92-167
\* regenerate_sql_query.  Both refuse a blank question before the LLM call
\* (:58-60, :136-138), call the LLM once, strip the answer and log
\* response.usage; every exception of the try block, the AttributeError of
\* that log line included, is raised again as a failure (:88-90, :165-167).
generate_sql_query(query_text, llm) ==
    IF strip(query_text) = ""
    THEN [ok |-> FALSE, sql |-> "", llm_calls |-> 0]
    ELSE IF llm = LLMError
    THEN [ok |-> FALSE, sql |-> "", llm_calls |-> 1]
    ELSE IF ~str_has_usage
    THEN [ok |-> FALSE, sql |-> "", llm_calls |-> 1]
    ELSE [ok |-> TRUE, sql |-> strip(llm), llm_calls |-> 1]

regenerate_sql_query(query_text, llm) == generate_sql_query(query_text, llm)

\* main.py:16 imports generate_sql_query and regenerate_sql_query from
\* services.sql_generator, a module that is not among the sources.  Its
\* contract: a blank question is refused before the LLM is called, a
\* provider error is a failure, otherwise the answer of the LLM is the SQL.
legacy_generate_sql_query(query_text, llm) ==
    IF strip(query_text) = ""
    THEN [ok |-> FALSE, sql |-> "", llm_calls |-> 0]
    ELSE IF llm = LLMError
    THEN [ok |-> FALSE, sql |-> "", llm_calls |-> 1]
    ELSE [ok |-> TRUE, sql |-> strip(llm), llm_calls |-> 1]

legacy_regenerate_sql_query(query_text, llm) ==
    legacy_generate_sql_query(query_text, llm)

\* the verdict is not written to the entry
SetLast_skip(history, ic) == history

\* history[-1]["is_correct"] = ..: main.py:273, chat_service.py:197
SetLast(history, ic) ==
    [history EXCEPT ![Len(history)].is_correct = ic]

Flag(b) == IF b THEN "true" ELSE "false"

(* -------------------- pieces shared by the handlers -------------------- *)
\* the history is started anew with the entry
history_append_reset(history, text, sql) == <<Entry(text, sql, "unset")>>

\* history.append({"text": .., "sql": .., "timestamp": ..}): main.py:245-249
\* and :340-344, chat_service.py:89-93 and :168-172
history_append(history, text, sql) == Append(history, Entry(text, sql, "unset"))

\* only the existence of the chat is checked
feedback_precheck_chat_only(rows, c) ==
    IF c \notin DOMAIN rows THEN 404 ELSE 0

\* the checks a feedback request passes before anything else happens:
\* main.py:261-270 and chat_service.py:101-107.  0 means "go on".
feedback_precheck(rows, c) ==
    IF c \notin DOMAIN rows THEN 404
    ELSE IF rows[c].query_history = <<>> THEN 400
    ELSE 0

\* the three lookups of a generation, in the order of the code
\* (documentation, DDL, question-SQL): main.py:199-211 and :302-310,
\* chat_service.py:43-55 and :128-136.  Each embeds the question once.
RetrievalCalls == [lookups |-> 3, embeds |-> 3]

get_related_documentation(question, pid, embOk) ==
    IF app = "services" THEN PgLookup(store, "documentation", question, pid, embOk)
    ELSE ChromaLookup(store, "documentation", question, pid, embOk)

get_related_ddl(question, pid, embOk) ==
    IF app = "services" THEN PgLookup(store, "ddl", question, pid, embOk)
    ELSE ChromaLookup(store, "ddl", question, pid, embOk)

get_similar_question_sql(question, pid, embOk) ==
    IF app = "services" THEN PgLookup(store, "sql", question, pid, embOk)
    ELSE ChromaLookup(store, "sql", question, pid, embOk)

AllOk == [i \in 1..3 |-> TRUE]

\* the categories in the order the handlers look them up
LookupOrder == <<"documentation", "ddl", "sql">>

\* Whether the embedding call of each of the three lookups succeeds.  A
\* failing call answers [] as a succeeding call does when the project has
\* no record of the category, so only the failures that can change the
\* answer are enumerated.
LookupOutcomes(pid) ==
    {oks \in [1..3 -> BOOLEAN] :
        \A i \in 1..3 :
            ~oks[i] => SelectSeq2(store[LookupOrder[i]], pid) # <<>>}

\* main.py:214-218 and chat_service.py:60-64: additional_samples[question]
\* = sql over the pairs found, in their order
additional_samples(similar_queries) ==
    DictUpdate(<<>>, [i \in 1..Len(similar_queries) |->
                        <<similar_queries[i].text, similar_queries[i].sql>>])

\* a context that falls back to the first record of the category, of
\* whatever project, when the lookup for the project finds nothing
Context_any_project(question, pid, oks) ==
    [schema |-> IF get_related_ddl(question, pid, oks[2]) # <<>>
                THEN get_related_ddl(question, pid, oks[2])[1].text
                ELSE IF store["ddl"] # <<>> THEN store["ddl"][1].text ELSE "",
     documentation |->
        IF get_related_documentation(question, pid, oks[1]) # <<>>
        THEN get_related_documentation(question, pid, oks[1])[1].text
        ELSE IF store["documentation"] # <<>>
        THEN store["documentation"][1].text ELSE "",
     samples |-> additional_samples(
                    IF get_similar_question_sql(question, pid, oks[3]) # <<>>
                    THEN get_similar_question_sql(question, pid, oks[3])
                    ELSE store["sql"])]

\* what the handlers hand to the generator: main.py:199-229 and :302-326,
\* chat_service.py:43-71 and :128-150.  The schema and the documentation
\* are the first item found or "", the samples are the pairs found, in
\* main.py after the items of project.sample_queries (:223, :320).
Context(question, pid, oks) ==
    LET similar_docs == get_related_documentation(question, pid, oks[1])
        similar_schema == get_related_ddl(question, pid, oks[2])
        similar_queries == get_similar_question_sql(question, pid, oks[3])
        found == additional_samples(similar_queries)
    IN  [schema |-> IF similar_schema # <<>> THEN similar_schema[1].text
                    ELSE "",
         documentation |-> IF similar_docs # <<>> THEN similar_docs[1].text
                           ELSE "",
         samples |-> IF app = "main"
                     THEN DictUpdate(sample_queries[pid], found)
                     ELSE found]

(* ------------------------------ the prompt ----------------------------- *)
\* one part of a prompt: a section line, a sample, an attempt, the question
Part(kind, a, b, c) == [kind |-> kind, a |-> a, b |-> b, c |-> c]

\* item.get('is_correct', True) as the f-string prints it
\* (sql_generator.py:43)
CorrectShown(ic) == IF ic = "false" THEN "False" ELSE "True"

\* sql_generator.py:29-38 and :108-117: the sections of the schema, of the
\* documentation and of the sample queries, each left out when empty
ContextParts(schema, documentation, samples) ==
    (IF strip(schema) # "" THEN <<Part("schema", schema, "", "")>> ELSE <<>>)
    \o (IF strip(documentation) # ""
        THEN <<Part("documentation", documentation, "", "")>> ELSE <<>>)
    \o [i \in 1..Len(samples) |-> Part("sample", samples[i][1], samples[i][2], "")]

\* sql_generator.py:26-45: the prompt of generate_sql_query; the history
\* of the conversation follows the samples in stored order, the question
\* comes last
generate_prompt(query_text, schema, documentation, samples, query_history) ==
    ContextParts(schema, documentation, samples)
    \o [i \in 1..Len(query_history) |->
          Part("attempt", query_history[i].text, query_history[i].sql,
               CorrectShown(query_history[i].is_correct))]
    \o <<Part("question", query_text, "", "")>>

\* sql_generator.py:101-104: the entries of the history with the text of
\* the question and an is_correct that is present and false
incorrect_attempts(query_history, query_text) ==
    SelectSeq(query_history,
              LAMBDA q : q.text = query_text /\ q.is_correct = "false")

\* sql_generator.py:106-125: the prompt of regenerate_sql_query
regenerate_prompt(query_text, schema, documentation, samples, query_history) ==
    ContextParts(schema, documentation, samples)
    \o [i \in 1..Len(incorrect_attempts(query_history, query_text)) |->
          Part("incorrect",
               incorrect_attempts(query_history, query_text)[i].sql, "", "")]
    \o <<Part("question", query_text, "", "")>>

\* the prompt as the LLM receives it: nothing when the generator raised
\* before the call (sql_generator.py:58-60, :136-138)
Sent(g, prompt) == IF g.llm_calls = 1 THEN prompt ELSE <<>>

(* ------------------------------ main.py -------------------------------- *)
\* main.py:187-253.  The three lookups run first (:199-211), then
\* generate_sql_query (:235-241); on success the entry is appended to
\* `chat.query_history or []` and assigned back (:244-251).  A non-empty
\* loaded list is appended to in place, so the assignment at :250 assigns
\* the object the attribute already holds.
main_generate_sql ==
    /\ app = "main"
    /\ \E c \in ChatIds, text \in RequestTexts, llm \in LLMOutcomes :
        \E oks \in (IF c \in DOMAIN chats
                    THEN LookupOutcomes(chats[c].project_id) ELSE {AllOk}) :
        LET base == [NoResp EXCEPT !.op = "generate_sql", !.chat = c]
        IN
        IF c \notin DOMAIN chats
        THEN /\ resp' = [base EXCEPT !.status = 404]
             /\ UNCHANGED <<app, mig, inflight, projects, sample_queries, chats, store, nextUuid>>
        ELSE LET g == legacy_generate_sql_query(text, llm)
                 loaded == chats[c].query_history
                 history == history_append(loaded, text, g.sql)
                 committed == IF loaded = <<>> THEN loaded ELSE history
                 called == [base EXCEPT
                              !.text = text,
                              !.schema = Context(text, chats[c].project_id, oks).schema,
                              !.documentation =
                                  Context(text, chats[c].project_id, oks).documentation,
                              !.samples = Context(text, chats[c].project_id, oks).samples,
                              !.prompt = Sent(g, generate_prompt(text,
                                  Context(text, chats[c].project_id, oks).schema,
                                  Context(text, chats[c].project_id, oks).documentation,
                                  Context(text, chats[c].project_id, oks).samples,
                                  loaded)),
                              !.lookups = RetrievalCalls.lookups,
                              !.lookup_failed = (oks # AllOk),
                              !.embeds = RetrievalCalls.embeds,
                              !.llm_calls = g.llm_calls,
                              !.llm_error = (g.llm_calls = 1 /\ llm = LLMError)]
             IN  /\ TotalEntries(chats, MaxChats) < MaxHistory
                 /\ IF g.ok
                    THEN /\ chats' = [chats EXCEPT ![c].query_history =
                                        FlushJSON(loaded, committed, history)]
                         /\ resp' = [called EXCEPT !.status = 200, !.sql = g.sql]
                    ELSE /\ chats' = chats
                         /\ resp' = [called EXCEPT !.status = 500]
                 /\ UNCHANGED <<app, mig, inflight, projects, sample_queries, store, nextUuid>>

\* main.py:255-349.  :273 sets is_correct on the last dict of the loaded
\* list in place and :291 assigns that list back; :292 commits.  With
\* is_correct the flag is switched off (:275) and the pair may be stored
\* (:276-289).  Otherwise the lookups and regenerate_sql_query follow
\* (:294-338); the new entry is appended to the local list, which is
\* assigned to the attribute reloaded after the commit (:340-346).
main_provide_feedback ==
    /\ app = "main"
    /\ \E c \in ChatIds, is_correct \in BOOLEAN, add_to_samples \in BOOLEAN,
          llm \in LLMOutcomes :
        \E oks \in (IF c \in DOMAIN chats /\ ~is_correct
                    THEN LookupOutcomes(chats[c].project_id) ELSE {AllOk}) :
        \E embOk \in (IF is_correct /\ add_to_samples THEN BOOLEAN ELSE {TRUE}) :
        LET base == [NoResp EXCEPT !.op = "provide_feedback", !.chat = c,
                                   !.is_correct = is_correct,
                                   !.add_to_samples = add_to_samples]
            check == feedback_precheck(chats, c)
        IN
        IF check # 0
        THEN /\ resp' = [base EXCEPT !.status = check]
             /\ UNCHANGED <<app, mig, inflight, projects, sample_queries, chats, store, nextUuid>>
        ELSE IF chats[c].query_history = <<>>
        THEN \* :272 history[-1] of an empty list raises IndexError
             /\ resp' = [base EXCEPT !.status = 500]
             /\ UNCHANGED <<app, mig, inflight, projects, sample_queries, chats, store, nextUuid>>
        ELSE
            LET loaded == chats[c].query_history
                history == SetLast(loaded, Flag(is_correct))
                last_query == history[Len(history)]
                \* :291-292: the list assigned is the list loaded
                after_commit == FlushJSON(loaded, history, history)
            IN
            IF is_correct
            THEN /\ add_to_samples => TotalRecords(store) < MaxRecords
                 /\ chats' = [chats EXCEPT
                                ![c].feedback_enabled = "false",
                                ![c].query_history = after_commit]
                 /\ store' = IF add_to_samples
                             THEN ChromaAdd(store, "sql", last_query.text,
                                            last_query.sql,
                                            chats[c].project_id, embOk).store
                             ELSE store
                 \* :277-280: the pair is set in `project.sample_queries
                 \* or {}`, in place when that dict is not empty
                 /\ sample_queries' =
                      IF add_to_samples
                      THEN LET p == chats[c].project_id
                               row == sample_queries[p]
                               current_samples ==
                                   DictSet(row, last_query.text, last_query.sql)
                           IN  [sample_queries EXCEPT ![p] =
                                  FlushJSON(row,
                                            IF row = <<>> THEN row
                                            ELSE current_samples,
                                            current_samples)]
                      ELSE sample_queries
                 /\ resp' = [base EXCEPT
                               !.status = 200,
                               !.embeds = IF add_to_samples THEN 1 ELSE 0]
                 /\ UNCHANGED <<app, mig, inflight, projects, nextUuid>>
            ELSE LET g == legacy_regenerate_sql_query(last_query.text, llm)
                     appended == history_append(history, last_query.text, g.sql)
                     called == [base EXCEPT
                                  !.text = last_query.text,
                                  !.schema = Context(last_query.text, chats[c].project_id, oks).schema,
                                  !.documentation =
                                      Context(last_query.text, chats[c].project_id, oks).documentation,
                                  !.samples = Context(last_query.text, chats[c].project_id, oks).samples,
                                  \* :337 query_history=history, the list flagged at :273
                                  !.prompt = Sent(g, regenerate_prompt(last_query.text,
                                      Context(last_query.text, chats[c].project_id, oks).schema,
                                      Context(last_query.text, chats[c].project_id, oks).documentation,
                                      Context(last_query.text, chats[c].project_id, oks).samples,
                                      history)),
                                  !.lookups = RetrievalCalls.lookups,
                                  !.lookup_failed = (oks # AllOk),
                                  !.embeds = RetrievalCalls.embeds,
                                  !.llm_calls = g.llm_calls,
                                  !.llm_error = (g.llm_calls = 1 /\ llm = LLMError)]
                 IN  /\ TotalEntries(chats, MaxChats) < MaxHistory
                     /\ IF g.ok
                        THEN /\ chats' = [chats EXCEPT ![c].query_history =
                                   FlushJSON(after_commit, after_commit, appended)]
                             /\ resp' = [called EXCEPT !.status = 200, !.sql = g.sql]
                        ELSE /\ chats' = [chats EXCEPT ![c].query_history =
                                            after_commit]
                             /\ resp' = [called EXCEPT !.status = 500]
                     /\ UNCHANGED <<app, mig, inflight, projects, sample_queries, store, nextUuid>>

\* main.py:351-362: PATCH /chats/{chat_id} reads the key feedback_enabled only
main_update_chat ==
    /\ app = "main"
    /\ \E c \in ChatIds, fe \in TriState \cup {"absent"} :
        IF c \notin DOMAIN chats
        THEN /\ resp' = [NoResp EXCEPT !.op = "update_chat", !.status = 404,
                                       !.chat = c]
             /\ UNCHANGED <<app, mig, inflight, projects, sample_queries, chats, store, nextUuid>>
        ELSE /\ chats' = [chats EXCEPT ![c].feedback_enabled =
                            IF fe = "absent" THEN @ ELSE fe]
             /\ resp' = [NoResp EXCEPT !.op = "update_chat", !.status = 200,
                                       !.chat = c]
             /\ UNCHANGED <<app, mig, inflight, projects, sample_queries, store, nextUuid>>

(* ----------------------- services/chat_service.py ---------------------- *)
\* chat_service.py:30-96.  The three lookups (:43-55) come before
\* generate_sql_query (:79-85), whose exception leaves the handler as a 500.
\* On success the entry is appended to `chat.query_history or []` (:88-93)
\* and ChatRepository.update_chat setattr's it (db/operations.py:29-37).
ChatService_generate_sql ==
    /\ app = "services"
    /\ \E c \in ChatIds, text \in RequestTexts, llm \in LLMOutcomes :
        \E oks \in (IF c \in DOMAIN chats
                    THEN LookupOutcomes(chats[c].project_id) ELSE {AllOk}) :
        LET base == [NoResp EXCEPT !.op = "generate_sql", !.chat = c]
        IN
        IF c \notin DOMAIN chats
        THEN /\ resp' = [base EXCEPT !.status = 404]
             /\ UNCHANGED <<app, mig, inflight, projects, sample_queries, chats, store, nextUuid>>
        ELSE LET g == generate_sql_query(text, llm)
                 loaded == chats[c].query_history
                 history == history_append(loaded, text, g.sql)
                 committed == IF loaded = <<>> THEN loaded ELSE history
                 called == [base EXCEPT
                              !.text = text,
                              !.schema = Context(text, chats[c].project_id, oks).schema,
                              !.documentation =
                                  Context(text, chats[c].project_id, oks).documentation,
                              !.samples = Context(text, chats[c].project_id, oks).samples,
                              !.prompt = Sent(g, generate_prompt(text,
                                  Context(text, chats[c].project_id, oks).schema,
                                  Context(text, chats[c].project_id, oks).documentation,
                                  Context(text, chats[c].project_id, oks).samples,
                                  loaded)),
                              !.lookups = RetrievalCalls.lookups,
                              !.lookup_failed = (oks # AllOk),
                              !.embeds = RetrievalCalls.embeds,
                              !.llm_calls = g.llm_calls,
                              !.llm_error = (g.llm_calls = 1 /\ llm = LLMError)]
             IN  /\ TotalEntries(chats, MaxChats) < MaxHistory
                 /\ IF g.ok
                    THEN /\ chats' = [chats EXCEPT ![c].query_history =
                                        FlushJSON(loaded, committed, history)]
                         /\ resp' = [called EXCEPT !.status = 200, !.sql = g.sql]
                    ELSE /\ chats' = chats
                         /\ resp' = [called EXCEPT !.status = 500]
                 /\ UNCHANGED <<app, mig, inflight, projects, sample_queries, store, nextUuid>>

\* chat_service.py:120-176: the lookups, regenerate_sql_query, then the
\* append in place followed by flag_modified (:167-174), which forces the
\* write of the column
ChatService__regenerate_sql(c, query_text, llm, oks, base) ==
    LET g == regenerate_sql_query(query_text, llm)
        history == history_append(chats[c].query_history, query_text, g.sql)
        called == [base EXCEPT
                     !.text = query_text,
                     !.schema = Context(query_text, chats[c].project_id, oks).schema,
                     !.documentation =
                         Context(query_text, chats[c].project_id, oks).documentation,
                     !.samples = Context(query_text, chats[c].project_id, oks).samples,
                     \* :163 query_history=chat.query_history, as loaded
                     !.prompt = Sent(g, regenerate_prompt(query_text,
                         Context(query_text, chats[c].project_id, oks).schema,
                         Context(query_text, chats[c].project_id, oks).documentation,
                         Context(query_text, chats[c].project_id, oks).samples,
                         chats[c].query_history)),
                     !.lookups = RetrievalCalls.lookups,
                     !.lookup_failed = (oks # AllOk),
                     !.embeds = RetrievalCalls.embeds,
                     !.llm_calls = g.llm_calls,
                     !.llm_error = (g.llm_calls = 1 /\ llm = LLMError)]
    IN  /\ TotalEntries(chats, MaxChats) < MaxHistory
        /\ IF g.ok
           THEN /\ chats' = [chats EXCEPT ![c].query_history = history]
                /\ resp' = [called EXCEPT !.status = 200, !.sql = g.sql]
           ELSE /\ chats' = chats
                /\ resp' = [called EXCEPT !.status = 500]

\* chat_service.py:98-118: is_correct is not written to the entry;
\* a correct answer sets feedback_enabled to True (:115);
\* feedback.add_to_samples is not read
ChatService_provide_feedback ==
    /\ app = "services"
    /\ \E c \in ChatIds, is_correct \in BOOLEAN, add_to_samples \in BOOLEAN,
          llm \in LLMOutcomes :
        \E oks \in (IF c \in DOMAIN chats /\ ~is_correct
                    THEN LookupOutcomes(chats[c].project_id) ELSE {AllOk}) :
        LET base == [NoResp EXCEPT !.op = "provide_feedback", !.chat = c,
                                   !.is_correct = is_correct,
                                   !.add_to_samples = add_to_samples]
            check == feedback_precheck(chats, c)
        IN
        IF check # 0
        THEN /\ resp' = [base EXCEPT !.status = check]
             /\ UNCHANGED <<app, mig, inflight, projects, sample_queries, chats, store, nextUuid>>
        ELSE IF chats[c].query_history = <<>>
        THEN \* :109 history[-1] of an empty list raises IndexError
             /\ resp' = [base EXCEPT !.status = 500]
             /\ UNCHANGED <<app, mig, inflight, projects, sample_queries, chats, store, nextUuid>>
        ELSE LET history == chats[c].query_history
                 last_query == history[Len(history)]
             IN  IF ~is_correct
                 THEN /\ ChatService__regenerate_sql(c, last_query.text, llm, oks, base)
                      /\ UNCHANGED <<app, mig, inflight, projects, sample_queries, store, nextUuid>>
                 ELSE /\ chats' = [chats EXCEPT ![c].feedback_enabled = "true"]
                      /\ resp' = [base EXCEPT !.status = 200]
                      /\ UNCHANGED <<app, mig, inflight, projects, sample_queries, store, nextUuid>>

\* the bodies of PATCH /chats/{chat_id}: any subset of the four keys the
\* handler reads; "absent" is a missing key
Updates ==
    [feedback_enabled : TriState \cup {"absent"},
     has_query_history : BOOLEAN,
     query_history : PatchHistories,
     last_query_feedback : {"true", "false", "absent"},
     add_to_samples : BOOLEAN]

\* chat_service.py:178-220.  :191 assigns the list of the request; :195-199
\* set is_correct on the last dict of whatever list the attribute holds and
\* assign that list back; :202-216 store the last pair; :218 commits.
ChatService_update_chat ==
    /\ app = "services"
    /\ \E c \in ChatIds, update \in Updates :
        \E embOk \in (IF update.add_to_samples THEN BOOLEAN ELSE {TRUE}) :
        /\ ~update.has_query_history => update.query_history = <<>>
        /\ IF c \notin DOMAIN chats
           THEN /\ resp' = [NoResp EXCEPT !.op = "update_chat", !.status = 404,
                                          !.chat = c]
                /\ UNCHANGED <<chats, store, nextUuid>>
           ELSE
            LET loaded == chats[c].query_history
                assigned == IF update.has_query_history
                            THEN update.query_history ELSE loaded
                marks == update.last_query_feedback # "absent" /\ assigned # <<>>
                history == IF marks
                           THEN SetLast(assigned, update.last_query_feedback)
                           ELSE assigned
                \* the object the attribute held before its first assignment
                \* is the loaded list; it is the list changed in place
                \* exactly when the request brought no list of its own
                committed == IF update.has_query_history THEN loaded ELSE history
                adds == update.add_to_samples /\ history # <<>>
                r == PgAdd(store, projects, "sql",
                           history[Len(history)].text, history[Len(history)].sql,
                           chats[c].project_id, embOk, nextUuid)
            IN  /\ adds => TotalRecords(store) < MaxRecords
                /\ TotalEntries(chats, MaxChats) - Len(loaded) + Len(history)
                      <= MaxHistory
                /\ chats' = [chats EXCEPT
                               ![c].feedback_enabled =
                                   IF update.feedback_enabled = "absent"
                                   THEN @ ELSE update.feedback_enabled,
                               ![c].query_history =
                                   FlushJSON(loaded, committed, history)]
                /\ store' = IF adds THEN r.store ELSE store
                /\ nextUuid' = IF adds /\ r.id # NoId
                               THEN nextUuid + 1 ELSE nextUuid
                /\ resp' = [NoResp EXCEPT
                              !.op = "update_chat", !.status = 200, !.chat = c,
                              !.add_to_samples = update.add_to_samples,
                              !.has_query_history = update.has_query_history,
                              !.ids = IF adds /\ r.id # NoId THEN <<r.id>> ELSE <<>>,
                              !.embeds = IF adds THEN 1 ELSE 0]
        /\ UNCHANGED <<app, mig, inflight, projects, sample_queries>>

(* ------------------- chat requests served together --------------------- *)
\* The handlers of generate and of provide_feedback(is_correct=False)
\* taken in two steps, as the threads of the server run them: the chat
\* row is loaded into the request's own session (main.py:193, :261;
\* chat_service.py:33, :101), the lookups and the LLM call follow, and
\* then the history is written.  No row lock and no version column
\* guards the row (models.py:23-32).
CallKinds == {"generate_sql", "provide_feedback"}

\* What the second step leaves in the column, db being the value stored by
\* then and loaded the list the request read:
\* generate (main.py:244-251, chat_service.py:88-94) appends to
\* `chat.query_history or []` and assigns it, which a non-empty loaded
\* list makes an assignment of the object the attribute holds;
\* provide_feedback of main.py marks the last entry, appends and assigns
\* the list to the attribute reloaded at :296 (:273, :340-346);
\* _regenerate_sql appends and calls flag_modified
\* (chat_service.py:166-174).
Written(kind, db, loaded, text, sql) ==
    IF kind = "generate_sql"
    THEN FlushJSON(db,
                   IF loaded = <<>> THEN loaded
                   ELSE history_append(loaded, text, sql),
                   history_append(loaded, text, sql))
    ELSE IF app = "main"
    THEN FlushJSON(db, loaded,
                   history_append(SetLast(loaded, "false"), text, sql))
    ELSE history_append(loaded, text, sql)

\* the first step: the request loads the chat
begin_call(k) ==
    /\ inflight[k].pc = "idle"
    /\ \E kind \in CallKinds, c \in DOMAIN chats, text \in Questions :
        /\ kind = "provide_feedback"
             => /\ feedback_precheck(chats, c) = 0
                /\ text = chats[c].query_history[
                              Len(chats[c].query_history)].text
        /\ Len(chats[c].query_history) < MaxHistory
        /\ inflight' = [inflight EXCEPT ![k] =
                           [pc |-> "running", kind |-> kind, chat |-> c,
                            loaded |-> chats[c].query_history,
                            text |-> text, sql |-> ""]]
        /\ UNCHANGED <<app, mig, projects, sample_queries, chats, store,
                       nextUuid, resp>>

\* the second step: the generator has answered and the history is written
finish_call(k) ==
    /\ inflight[k].pc = "running"
    /\ \E llm \in LLMOutcomes :
        LET call == inflight[k]
            c == call.chat
            g == IF app = "main"
                 THEN (IF call.kind = "generate_sql"
                       THEN legacy_generate_sql_query(call.text, llm)
                       ELSE legacy_regenerate_sql_query(call.text, llm))
                 ELSE (IF call.kind = "generate_sql"
                       THEN generate_sql_query(call.text, llm)
                       ELSE regenerate_sql_query(call.text, llm))
            base == [NoResp EXCEPT !.op = call.kind, !.chat = c,
                                   !.text = call.text,
                                   !.lookups = RetrievalCalls.lookups,
                                   !.embeds = RetrievalCalls.embeds,
                                   !.llm_calls = g.llm_calls,
                                   !.llm_error = (g.llm_calls = 1
                                                  /\ llm = LLMError)]
        IN  IF g.ok
            THEN /\ chats' = [chats EXCEPT ![c].query_history =
                                Written(call.kind, @, call.loaded,
                                        call.text, g.sql)]
                 /\ inflight' = [inflight EXCEPT ![k].pc = "ok",
                                                 ![k].sql = g.sql]
                 /\ resp' = [base EXCEPT !.status = 200, !.sql = g.sql]
            ELSE /\ chats' = chats
                 /\ inflight' = [inflight EXCEPT ![k].pc = "failed"]
                 /\ resp' = [base EXCEPT !.status = 500]
    /\ UNCHANGED <<app, mig, projects, sample_queries, store, nextUuid>>

(* --------------------------- specification ----------------------------- *)
\* the endpoints that fill the vector store
NextStore ==
    \/ create_project
    \/ ProjectService_add_documentation_items
    \/ ProjectService_add_question_sql_pairs
    \/ ProjectService_add_ddl_statements
    \/ main_update_documentation
    \/ main_add_ddl
    \/ main_add_sample_queries

\* the chat endpoints
NextChat ==
    \/ create_project
    \/ create_project_chat
    \/ create_chat
    \/ main_generate_sql
    \/ main_provide_feedback
    \/ main_update_chat
    \/ ChatService_generate_sql
    \/ ChatService_provide_feedback
    \/ ChatService_update_chat

Next == NextStore \/ NextChat

Spec == Init /\ [][Next]_vars

\* the program with only the vector-store endpoints called
SpecStore == Init /\ [][NextStore]_vars

\* the program with only the chat endpoints called
SpecChat == Init /\ [][NextChat]_vars

\* no chat has a history yet
FirstGeneration == \A c \in DOMAIN chats : chats[c].query_history = <<>>

\* generation over a store the add endpoints fill: the store is filled
\* before the first chat is opened, and of each chat the first generation
\* is explored
NextGenerate ==
    \/ create_project
    \/ chats = << >> /\ ProjectService_add_documentation_items
    \/ chats = << >> /\ ProjectService_add_question_sql_pairs
    \/ chats = << >> /\ ProjectService_add_ddl_statements
    \/ chats = << >> /\ main_update_documentation
    \/ chats = << >> /\ main_add_ddl
    \/ create_project_chat
    \/ FirstGeneration /\ main_generate_sql
    \/ FirstGeneration /\ ChatService_generate_sql

SpecGenerate == Init /\ [][NextGenerate]_vars

\* the deployment of main.py, whose store is the Chroma store
InitMain == Init /\ app = "main"

\* the Chroma store filled through main.py, the sample queries one pair a
\* request, and migrated while nothing else uses it
NextMigrate ==
    \/ create_project
    \/ main_update_documentation
    \/ main_add_ddl
    \/ main_add_sample_queries /\ Len(resp'.items) <= 1
    \/ migrate_embeddings

SpecMigrate == InitMain /\ [][NextMigrate]_vars

\* the deployment of the routes and services, whose store is the
\* Postgres store
InitServices == Init /\ app = "services"

\* the record ids handed out in a behaviour with deletions
MaxUuid == MaxRecords + 1

\* projects with their chats and records, and their deletion
NextDelete ==
    \/ create_project
    \/ create_project_chat
    \/ ProjectService_add_documentation_items /\ nextUuid' <= MaxUuid
    \/ ProjectService_add_question_sql_pairs /\ nextUuid' <= MaxUuid
    \/ ProjectService_add_ddl_statements /\ nextUuid' <= MaxUuid
    \/ delete_project

SpecDelete == InitServices /\ [][NextDelete]_vars

\* the two store classes called directly
NextDirect ==
    \/ create_project
    \/ \E cat \in Categories : PostgresDB_VectorStore_add(cat)
    \/ \E cat \in Categories : ChromaDB_VectorStore_add(cat)
    \/ PostgresDB_VectorStore_remove_training_data
    \/ ChromaDB_VectorStore_remove_training_data

SpecDirect == Init /\ [][NextDirect]_vars

\* two chat requests served together
NextConcurrent ==
    \/ create_project
    \/ create_chat
    \/ \E k \in Slots : begin_call(k)
    \/ \E k \in Slots : finish_call(k)

SpecConcurrent == Init /\ [][NextConcurrent]_vars

\* the Chroma store called while a migration is under way: add_ddl
\* (chroma.py:164-180) at any time, get_related_ddl and
\* remove_training_data between the steps of the migration
NextMigrateConcurrent ==
    \/ ChromaDB_VectorStore_add("ddl")
    \/ mig.pc # "idle" /\ ChromaDB_VectorStore_lookup("ddl")
    \/ mig.pc # "idle" /\ ChromaDB_VectorStore_remove_training_data
    \/ migrate_begin
    \/ migrate_delete
    \/ migrate_restore

SpecMigrateConcurrent == InitMain /\ [][NextMigrateConcurrent]_vars

\* requests that name a project, a chat or a record by its id, among
\* them ids that name nothing: the chat handlers are taken for a chat
\* that does not exist
NextNotFound ==
    \/ create_project
    \/ create_project_chat
    \/ ProjectService_add_documentation_items /\ nextUuid' <= MaxUuid
    \/ ProjectService_add_ddl_statements /\ nextUuid' <= MaxUuid
    \/ get_project
    \/ get_chat
    \/ delete_project
    \/ \E cat \in Categories : ProjectService_delete_item(cat)
    \/ ChatService_generate_sql /\ resp'.status = 404
    \/ ChatService_provide_feedback /\ resp'.status = 404
    \/ ChatService_update_chat /\ resp'.status = 404

SpecNotFound == InitServices /\ [][NextNotFound]_vars

\* chats that are opened with the feedback flag unset and then only
\* generated on and judged: the flag is written by the feedback handlers
\* alone
NextFeedback ==
    \/ create_project
    \/ create_project_chat
    \/ create_chat
          /\ \A c \in DOMAIN chats' \ DOMAIN chats :
                chats'[c].feedback_enabled = "unset"
    \/ main_generate_sql
    \/ main_provide_feedback
    \/ ChatService_generate_sql
    \/ ChatService_provide_feedback

SpecFeedback == Init /\ [][NextFeedback]_vars

\* a question asked on a chat that may hold earlier attempts, for a
\* project whose records were stored before the chat was opened
NextPrompt ==
    \/ create_project
    \/ chats = << >> /\ ProjectService_add_question_sql_pairs
    \/ chats = << >> /\ ProjectService_add_ddl_statements
    \/ chats = << >> /\ main_add_ddl
    \/ create_chat
          /\ \A c \in DOMAIN chats' \ DOMAIN chats :
                chats'[c].feedback_enabled = "unset"
    \/ main_provide_feedback /\ ~resp'.is_correct
    \/ resp.op # "generate_sql" /\ main_generate_sql
    \/ resp.op # "generate_sql" /\ ChatService_generate_sql

SpecPrompt == Init /\ [][NextPrompt]_vars

\* batches added to the projects of the services application
NextBatch ==
    \/ create_project
    \/ ProjectService_add_documentation_items /\ nextUuid' <= MaxUuid
    \/ ProjectService_add_question_sql_pairs /\ nextUuid' <= MaxUuid
    \/ ProjectService_add_ddl_statements /\ nextUuid' <= MaxUuid

SpecBatch == InitServices /\ [][NextBatch]_vars

(* ------------------------------ properties ------------------------------ *)
Last(h) == h[Len(h)]

\* C1: a lookup of any category made for project A returns only records
\* stored under project A, whatever the other projects hold.
C1_ProjectIsolation ==
    \A pid \in ProjectIds, q \in Questions :
        /\ \A i \in 1..Len(get_related_documentation(q, pid, TRUE)) :
              get_related_documentation(q, pid, TRUE)[i].project_id = pid
        /\ \A i \in 1..Len(get_related_ddl(q, pid, TRUE)) :
              get_related_ddl(q, pid, TRUE)[i].project_id = pid
        /\ \A i \in 1..Len(get_similar_question_sql(q, pid, TRUE)) :
              get_similar_question_sql(q, pid, TRUE)[i].project_id = pid

\* two projects hold a DDL record each and the lookup for project 1 answers
\* one record
C1_Witness ==
    /\ Len(store["ddl"]) = 2
    /\ store["ddl"][1].project_id # store["ddl"][2].project_id
    /\ Len(get_related_ddl("q1", 1, TRUE)) = 1

\* C2: when a generate call has returned SQL and the next call on that chat
\* is provide_feedback with is_correct = true, the call succeeds, the flag
\* feedback_enabled is false and the last entry carries is_correct = true.
C2_CorrectFeedback ==
    [][ ( /\ resp.op = "generate_sql" /\ resp.status = 200
          /\ resp'.op = "provide_feedback" /\ resp'.chat = resp.chat
          /\ resp'.is_correct )
        => ( /\ resp'.status = 200
             /\ chats'[resp'.chat].feedback_enabled = "false"
             /\ Last(chats'[resp'.chat].query_history).is_correct = "true" )
      ]_vars

OnlyLastUnjudged(h) == \A i \in 1..Len(h) : i < Len(h) => h[i].is_correct # "unset"

AppendOnly(h, h2) ==
    /\ Len(h2) >= Len(h)
    /\ \A i \in 1..Len(h) : h2[i].text = h[i].text /\ h2[i].sql = h[i].sql

C6_GenerateAppends ==
    [][ (resp'.op = "generate_sql" /\ resp'.status = 200)
        => chats'[resp'.chat].query_history =
              Append(chats[resp'.chat].query_history,
                     Entry(resp'.text, resp'.sql, "unset"))
      ]_vars

\* C7: a generate or provide_feedback call whose LLM call fails reports a
\* failure and leaves every chat row as it was.
C7_LLMFailureChangesNothing ==
    [][ resp'.llm_error => (resp'.status >= 400 /\ chats' = chats) ]_vars

\* the LLM failed while an answer rejected by provide_feedback was being
\* regenerated, and the last entry is as it was before the call
C7_Witness ==
    /\ resp.op = "provide_feedback" /\ resp.llm_error /\ ~resp.is_correct
    /\ resp.status = 500
    /\ chats[resp.chat].query_history # <<>>
    /\ Last(chats[resp.chat].query_history).is_correct = "unset"

\* C8: a generate call on an existing chat whose question is empty or only
\* whitespace fails without a lookup, an embedding call or an LLM call and
\* changes no chat row.
C8_EmptyQuestionFailsFirst ==
    [][ ( /\ resp'.op = "generate_sql" /\ resp'.status # 404
          /\ strip(resp'.text) = "" )
        => ( /\ resp'.status >= 400
             /\ resp'.lookups = 0 /\ resp'.embeds = 0 /\ resp'.llm_calls = 0
             /\ chats' = chats )
      ]_vars

\* C9: provide_feedback on a chat without entries answers 400 for either
\* value of is_correct, makes no lookup and no LLM call, and changes neither
\* the history nor the flag.
C9_NoHistory ==
    [][ ( /\ resp'.op = "provide_feedback"
          /\ resp'.chat \in DOMAIN chats
          /\ chats[resp'.chat].query_history = <<>> )
        => ( /\ resp'.status = 400
             /\ resp'.lookups = 0 /\ resp'.embeds = 0 /\ resp'.llm_calls = 0
             /\ chats' = chats )
      ]_vars

\* feedback was refused for a chat without entries
C9_Witness ==
    /\ resp.op = "provide_feedback" /\ resp.status = 400
    /\ resp.chat \in DOMAIN chats
    /\ chats[resp.chat].query_history = <<>>
    /\ chats[resp.chat].feedback_enabled = "unset"

\* the category an add endpoint writes to
OpCategory(op) ==
    CASE op \in {"add_documentation_items", "update_documentation"} -> "documentation"
      [] op \in {"add_ddl_statements", "add_ddl"} -> "ddl"
      [] OTHER -> "sql"

AddOps ==
    {"add_documentation_items", "add_question_sql_pairs", "add_ddl_statements",
     "update_documentation", "add_ddl", "add_sample_queries"}

SameContent(r, pid, item) ==
    r.project_id = pid /\ r.text = item[1] /\ r.sql = item[2]

\* C10: adding content a project already holds returns the id of the record
\* held and leaves the content listed once for the project.
C10_IdempotentAdd ==
    [][ ( /\ resp'.op \in AddOps /\ resp'.status = 200
          /\ Len(resp'.ids) = Len(resp'.items) )
        => \A k \in 1..Len(resp'.items) :
             \A i \in 1..Len(store[OpCategory(resp'.op)]) :
               LET cat == OpCategory(resp'.op)
                   held == store[cat][i]
                   listing == ListAll(store'[cat], resp'.project)
               IN  SameContent(held, resp'.project, resp'.items[k])
                   => /\ resp'.ids[k] = held.id
                      /\ Cardinality({j \in 1..Len(listing) :
                            SameContent(listing[j], resp'.project,
                                        resp'.items[k])}) = 1
      ]_vars

\* the limits a lookup is asked for: below, at and above the number of
\* records a project can hold
Limits == 1..(MaxRecords + 1)

\* a is more similar to q than b is: cos(q,a) > cos(q,b) for vectors with
\* non-negative components, none of them zero
MoreSimilar(q, a, b) ==
    Dot(q, a) * Dot(q, a) * Dot(b, b) > Dot(q, b) * Dot(q, b) * Dot(a, a)

\* row i of rows comes before row j in the ranking for q: more similar, or
\* equally similar and stored earlier
RankedBefore(rows, q, i, j) ==
    \/ MoreSimilar(q, rows[i].embedding, rows[j].embedding)
    \/ /\ ~MoreSimilar(q, rows[j].embedding, rows[i].embedding)
       /\ i < j

\* r is the first k rows of rows in that ranking
IsTopK(rows, q, k, r) ==
    /\ Len(r) = IF Len(rows) < k THEN Len(rows) ELSE k
    /\ \E f \in [1..Len(r) -> 1..Len(rows)] :
          /\ \A i \in 1..Len(r) : r[i] = rows[f[i]]
          /\ \A i, j \in 1..Len(r) : i < j => RankedBefore(rows, q, f[i], f[j])
          /\ \A m \in 1..Len(rows) :
                (\A i \in 1..Len(r) : f[i] # m)
                => \A i \in 1..Len(r) : RankedBefore(rows, q, f[i], m)

HoldsNone(cat, pid) ==
    \A i \in 1..Len(store[cat]) : store[cat][i].project_id # pid

\* C12: a lookup in a category in which the project holds no record
\* answers the empty sequence, whatever the other projects hold, also when
\* its embedding call fails; and a generation for a chat of such a project
\* makes its three lookups, hands the generator an empty schema, an empty
\* documentation and no samples, and, the question not being blank, gets
\* as far as the LLM call.
C12_ZeroResultSafety ==
    [][ /\ \A pid \in ProjectIds, q \in Questions, ok \in BOOLEAN :
             /\ HoldsNone("documentation", pid)
                  => get_related_documentation(q, pid, ok) = <<>>
             /\ HoldsNone("ddl", pid) => get_related_ddl(q, pid, ok) = <<>>
             /\ HoldsNone("sql", pid)
                  => get_similar_question_sql(q, pid, ok) = <<>>
        /\ ( /\ resp'.op = "generate_sql"
             /\ resp' # resp
             /\ resp'.chat \in DOMAIN chats )
           => LET pid == chats[resp'.chat].project_id
              IN  /\ resp'.lookups = 3
                  /\ HoldsNone("ddl", pid) => resp'.schema = ""
                  /\ HoldsNone("documentation", pid)
                       => resp'.documentation = ""
                  /\ (HoldsNone("sql", pid) /\ sample_queries[pid] = <<>>)
                       => resp'.samples = <<>>
                  /\ strip(resp'.text) # "" => resp'.llm_calls = 1
      ]_vars

\* a generation asked the LLM for a project without records while another
\* project holds a DDL and a documentation record
C12_Witness ==
    /\ resp.op = "generate_sql"
    /\ resp.chat \in DOMAIN chats
    /\ resp.llm_calls = 1
    /\ resp.schema = "" /\ resp.documentation = "" /\ resp.samples = <<>>
    /\ \A cat \in Categories : HoldsNone(cat, chats[resp.chat].project_id)
    /\ store["ddl"] # <<>>
    /\ store["documentation"] # <<>>

\* the ids, documents and metadata a collection holds
Payloads(coll) ==
    {[id |-> coll[i].id, project_id |-> coll[i].project_id,
      text |-> coll[i].text, sql |-> coll[i].sql] : i \in 1..Len(coll)}

\* C13: a migration that returns success leaves in every category the
\* records it found, with their ids, documents and metadata (the project
\* id included), and as many of them.
C13_MigrationPreservesIdentity ==
    [][ (resp'.op = "migrate_embeddings" /\ resp'.returned = "True")
        => \A cat \in Categories :
             /\ Payloads(store'[cat]) = Payloads(store[cat])
             /\ Len(store'[cat]) = Len(store[cat]) ]_vars

\* C14: when the embedding call fails for a record during a migration,
\* the record stays in the store with the id, the payload and the
\* embedding it had, every other record of every category is there with
\* an embedding of the migration's function, and the count the migration
\* reports is the number of records it re-embedded.
C14_PartialFailurePolicy ==
    [][ resp'.op = "migrate_embeddings"
        => /\ \A cat \in Categories :
                /\ Len(store'[cat]) = Len(store[cat])
                /\ \A i \in 1..Len(store[cat]) :
                     \E j \in 1..Len(store'[cat]) :
                        LET old == store[cat][i]
                        IN  store'[cat][j] =
                              IF resp'.raised[cat] = i THEN old
                              ELSE [old EXCEPT !.embedding =
                                      EmbedWith(mig'.embedding_function,
                                        RecordEmbedding(cat, old.text,
                                                        old.sql))]
           /\ resp'.restored_count =
                 Cardinality({<<cat, i>> \in Categories \X (1..MaxRecords) :
                                /\ i <= Len(store[cat])
                                /\ resp'.raised[cat] # i}) ]_vars

\* C15: after a delete_project that reports success none of the chats the
\* project owned and no record with its id exists, and in every state the
\* chats and the records belong to projects that exist.
C15_DeleteCascades ==
    /\ [][ (resp'.op = "delete_project" /\ resp'.status = 200)
           => LET p == resp'.project
              IN  /\ \A c \in DOMAIN chats :
                       chats[c].project_id = p => c \notin DOMAIN chats'
                  /\ \A cat \in Categories : \A i \in 1..Len(store'[cat]) :
                       store'[cat][i].project_id # p ]_vars
    /\ [](/\ \A c \in DOMAIN chats :
                chats[c].project_id \in projects \cup {NULL}
          /\ \A cat \in Categories : \A i \in 1..Len(store[cat]) :
                store[cat][i].project_id \in projects)

DirectAdds == {"add_question_sql", "add_ddl", "add_documentation"}

\* C16: an add called without a project id, or with the id of no project,
\* returns no record id and leaves the store as it was; and every record
\* of the store carries the id of a project.
C16_AddNeedsProject ==
    /\ [][ (resp'.op \in DirectAdds /\ resp'.project \notin projects)
           => (resp'.ids = <<>> /\ store' = store) ]_vars
    /\ [](\A cat \in Categories : \A i \in 1..Len(store[cat]) :
             store[cat][i].project_id \in projects)

\* C17: an add whose embedding call fails or yields nothing returns no
\* record id and leaves the store as it was, and no record of the store
\* has an empty or a zero vector.
C17_EmbeddingFailureStops ==
    /\ [][ (resp'.op \in DirectAdds /\ resp'.embed_failed)
           => (resp'.ids = <<>> /\ store' = store) ]_vars
    /\ [](\A cat \in Categories : \A i \in 1..Len(store[cat]) :
             /\ store[cat][i].embedding # <<>>
             /\ \E k \in 1..Len(store[cat][i].embedding) :
                   store[cat][i].embedding[k] # 0)

\* an add failed on its embedding call while the store held a record
C17_Witness ==
    /\ resp.op \in DirectAdds
    /\ resp.embed_failed
    /\ resp.ids = <<>>
    /\ TotalRecords(store) > 0

\* whether the store holds a record of that id: the ids of the Postgres
\* store are the one-element tuples
Exists(st, id) ==
    IF Len(id) = 1
    THEN app = "services"
         /\ \E cat \in Categories : HasId(st[cat], id)
    ELSE app = "main" /\ SuffixCategory(id) # "none"
         /\ HasId(st[SuffixCategory(id)], id)

\* C18: remove_training_data(id) answers True exactly when the store
\* holds a record of that id; then that record is gone and every other
\* record is as it was; otherwise the store is unchanged.
C18_RemoveReportsExistence ==
    [][ resp'.op = "remove_training_data"
        => LET id == resp'.ids[1]
           IN  /\ (resp'.returned = "True") <=> Exists(store, id)
               /\ IF Exists(store, id)
                  THEN /\ ~Exists(store', id)
                       /\ \A cat \in Categories :
                            store'[cat] = Without(store[cat], id)
                  ELSE store' = store ]_vars

\* the history a request leaves when it runs alone on the history h
Alone(call, h) ==
    Written(call.kind, h, h,
            IF call.kind = "generate_sql" THEN call.text
            ELSE h[Len(h)].text,
            call.sql)

\* C19: when two generate or provide_feedback requests on one chat have
\* both succeeded, the history stored is the one that running the two
\* one after the other, in one order or the other, leaves.
C19_AppendsLinearized ==
    LET A == inflight[1]
        B == inflight[2]
    IN  (A.pc = "ok" /\ B.pc = "ok" /\ A.chat = B.chat)
        => \/ chats[A.chat].query_history = Alone(B, Alone(A, A.loaded))
           \/ chats[A.chat].query_history = Alone(A, Alone(B, B.loaded))

StoreCalls ==
    DirectAdds \cup {"remove_training_data", "get_similar_question_sql",
                     "get_related_ddl", "get_related_documentation"}

\* a record the migration deletes without having saved it is gone when
\* the migration finishes
NoAddLost ==
    (mig.pc = "backed_up" /\ mig'.pc = "deleted")
    => \A cat \in Categories : \A i \in 1..Len(store[cat]) :
          \E j \in 1..Len(mig.existing_data[cat]) :
              mig.existing_data[cat][j].id = store[cat][i].id

\* a lookup answered between the steps finds something for a project
\* that had records of the category when the migration began
NoEmptiedLookup ==
    (/\ mig.pc # "idle" /\ mig' = mig
     /\ resp'.op = "get_related_ddl" /\ ~resp'.embed_failed
     /\ \E j \in 1..Len(mig.existing_data["ddl"]) :
            mig.existing_data["ddl"][j].project_id = resp'.project)
    => resp'.ids # <<>>

\* C20: between the steps of a migration no add, remove or lookup on the
\* store is served: a step that is not the migration's leaves the store
\* as it is and answers no call on the store; so no record added
\* meanwhile is lost, and no lookup sees a category the migration emptied.
C20_MigrationExclusive ==
    [][ /\ (mig.pc # "idle" /\ mig' = mig)
           => /\ store' = store
              /\ resp'.op \notin StoreCalls
        /\ NoAddLost
        /\ NoEmptiedLookup ]_vars

\* the SQL texts a prompt lists as previous incorrect attempts
ListedIncorrect(prompt) ==
    {prompt[i].a : i \in {j \in 1..Len(prompt) : prompt[j].kind = "incorrect"}}

\* C21: when a feedback request with is_correct = false has the LLM
\* called, the prompt lists as incorrect the SQL of the attempt just
\* judged and the SQL of every earlier attempt of the same question that
\* is recorded as incorrect.
C21_PromptListsIncorrect ==
    [][ \A c \in DOMAIN chats :
          (/\ resp'.op = "provide_feedback" /\ resp'.chat = c
           /\ ~resp'.is_correct /\ resp'.llm_calls = 1
           /\ chats[c].query_history # <<>>)
          => LET h == chats[c].query_history
             IN  /\ Last(h).sql \in ListedIncorrect(resp'.prompt)
                 /\ \A i \in 1..Len(h) :
                       (h[i].text = Last(h).text /\ h[i].is_correct = "false")
                       => h[i].sql \in ListedIncorrect(resp'.prompt) ]_vars

\* the question-SQL records of project pid hold the pair
HoldsPair(st, pid, text, sql) ==
    \E i \in 1..Len(st["sql"]) :
        /\ st["sql"][i].project_id = pid
        /\ st["sql"][i].text = text
        /\ st["sql"][i].sql = sql

\* C22: a feedback request that is answered 200 with is_correct and
\* add_to_samples leaves the pair of the last entry among the question-SQL
\* records of the chat's project; a feedback request without
\* add_to_samples, or with is_correct = false, leaves the store as it was.
C22_FeedbackAddsSample ==
    [][ \A c \in DOMAIN chats :
          (/\ resp'.op = "provide_feedback" /\ resp'.chat = c
           /\ chats[c].query_history # <<>>
           /\ (resp'.status = 200 \/ ~(resp'.is_correct /\ resp'.add_to_samples)))
          => IF resp'.is_correct /\ resp'.add_to_samples
             THEN HoldsPair(store', chats[c].project_id,
                            Last(chats[c].query_history).text,
                            Last(chats[c].query_history).sql)
             ELSE store' = store ]_vars

ChatOps == {"get_chat", "generate_sql", "provide_feedback", "update_chat"}

DeleteItemOps ==
    {"delete_question_sql_item", "delete_ddl_item", "delete_documentation_item"}

StoredUnchanged ==
    /\ projects' = projects /\ chats' = chats /\ store' = store
    /\ sample_queries' = sample_queries

\* C23: a request that reads or deletes a project without a row, a chat
\* request for a chat without a row, and the deletion of an item whose id
\* names no record are each answered 404 and change no stored state.
C23_NotFoundIs404 ==
    [][ /\ (resp'.op \in {"get_project", "delete_project"}
            /\ resp'.project \notin projects)
           => (resp'.status = 404 /\ StoredUnchanged)
        /\ (resp'.op \in ChatOps /\ resp'.chat \notin DOMAIN chats)
           => (resp'.status = 404 /\ StoredUnchanged)
        /\ (resp'.op \in DeleteItemOps /\ ~Exists(store, resp'.ids[1]))
           => (resp'.status = 404 /\ StoredUnchanged) ]_vars

\* a feedback request that confirms the last attempt leaves the flag off
ConfirmTurnsOff(c) ==
    (/\ resp'.op = "provide_feedback" /\ resp'.chat = c
     /\ resp'.is_correct /\ resp'.status = 200)
    => chats'[c].feedback_enabled = "false"

\* a feedback request on a chat whose flag is off leaves it off
FeedbackKeepsOff(c) ==
    (/\ resp'.op = "provide_feedback" /\ resp'.chat = c
     /\ chats[c].feedback_enabled = "false")
    => chats'[c].feedback_enabled = "false"

\* a generation that appends an attempt leaves the flag not off
GenerateReenables(c) ==
    (/\ resp'.op = "generate_sql" /\ resp'.chat = c /\ resp'.status = 200)
    => chats'[c].feedback_enabled # "false"

\* C24: confirming the latest attempt switches the feedback flag of the
\* chat off, later feedback requests do not switch it on, and the next
\* generation on the chat ends the switching off.
C24_FeedbackOffUntilGenerate ==
    [][ \A c \in DOMAIN chats \cap DOMAIN chats' :
          ConfirmTurnsOff(c) /\ FeedbackKeepsOff(c) /\ GenerateReenables(c) ]_vars

\* the place of a kind of part in a prompt
KindRank(kind) ==
    CASE kind = "schema" -> 1
      [] kind = "documentation" -> 2
      [] kind = "sample" -> 3
      [] kind = "attempt" -> 4
      [] kind = "incorrect" -> 4
      [] OTHER -> 5

InOrder(prompt) ==
    \A i, j \in 1..Len(prompt) :
        i < j => KindRank(prompt[i].kind) <= KindRank(prompt[j].kind)

OfKind(prompt, kind) == SelectSeq(prompt, LAMBDA x : x.kind = kind)

\* the prompt opens its section `kind` with one of the texts the project
\* holds in category cat, or has no such section when it holds none
FirstItemOf(prompt, kind, cat, pid) ==
    LET held == SelectSeq2(store[cat], pid)
    IN  IF held = <<>> THEN OfKind(prompt, kind) = <<>>
        ELSE /\ Len(OfKind(prompt, kind)) = 1
             /\ \E i \in 1..Len(held) : OfKind(prompt, kind)[1].a = held[i].text

\* every question-SQL pair of the project is a sample of the prompt
EveryPair(prompt, pid) ==
    \A i \in 1..Len(store["sql"]) :
        store["sql"][i].project_id = pid
        => \E k \in 1..Len(prompt) :
              /\ prompt[k].kind = "sample"
              /\ prompt[k].a = store["sql"][i].text
              /\ prompt[k].b = store["sql"][i].sql

\* the attempts of the chat, oldest first, each with its correctness
PriorAttempts(prompt, h) ==
    /\ Len(OfKind(prompt, "attempt")) = Len(h)
    /\ \A i \in 1..Len(h) :
          /\ OfKind(prompt, "attempt")[i].a = h[i].text
          /\ OfKind(prompt, "attempt")[i].b = h[i].sql
          /\ (OfKind(prompt, "attempt")[i].c = "False")
                <=> (h[i].is_correct = "false")

\* C25: the prompt of a generation holds, in this order, the first related
\* DDL item of the project, its first related documentation item, every
\* question-SQL pair of the project, the attempts of the chat oldest
\* first with their correctness, and the question last.
C25_PromptSections ==
    [][ \A c \in DOMAIN chats :
          (resp'.op = "generate_sql" /\ resp'.chat = c /\ resp'.llm_calls = 1)
          => LET prompt == resp'.prompt
                 pid == chats[c].project_id
             IN  /\ InOrder(prompt)
                 /\ prompt # <<>>
                 /\ Last(prompt).kind = "question"
                 /\ Last(prompt).a = resp'.text
                 /\ Len(OfKind(prompt, "question")) = 1
                 /\ FirstItemOf(prompt, "schema", "ddl", pid)
                 /\ FirstItemOf(prompt, "documentation", "documentation", pid)
                 /\ EveryPair(prompt, pid)
                 /\ PriorAttempts(prompt, chats[c].query_history) ]_vars

\* C26: a generation or a feedback request one of whose lookups failed
\* inside the store is answered with an error and the LLM is not called
\* with the context that lookup left empty.
C26_LookupFailureReported ==
    [][ (resp'.op \in {"generate_sql", "provide_feedback"}
         /\ resp'.lookup_failed)
        => (resp'.status >= 400 /\ resp'.llm_calls = 0) ]_vars

\* the output dimension of an embedding function
EmbeddingDimension(ef) == IF ef = "default_ef" THEN 2 ELSE 3

C28_GeneratorSucceeds ==
    [][ (resp'.op \in {"generate_sql", "provide_feedback"}
         /\ resp'.lookups = RetrievalCalls.lookups)
        => /\ resp'.llm_calls <= 1
           /\ (resp'.status = 200)
                <=> (strip(resp'.text) # "" /\ resp'.llm_calls = 1
                     /\ ~resp'.llm_error)
           /\ resp'.status = 200
                => resp'.sql \in {strip(l) : l \in LLMTexts} ]_vars

\* C29: an add of a DDL or documentation text for a project that returns
\* an id leaves the text retrievable in that project, and the id names no
\* record of another project, so that removing it takes nothing from
\* another project.
C29_IdsDoNotInterfere ==
    [][ (/\ resp'.op \in {"add_ddl", "add_documentation"}
         /\ resp'.project \in ProjectIds
         /\ resp'.ids # <<>>)
        => LET cat == IF resp'.op = "add_ddl" THEN "ddl" ELSE "documentation"
               pid == resp'.project
           IN  /\ \E i \in 1..Len(store'[cat]) :
                     /\ store'[cat][i].project_id = pid
                     /\ store'[cat][i].text = resp'.items[1][1]
               /\ \E q \in Questions :
                     LET found == IF app = "services"
                                  THEN PgLookup(store', cat, q, pid, TRUE)
                                  ELSE ChromaLookup(store', cat, q, pid, TRUE)
                     IN  \E i \in 1..Len(found) :
                            found[i].text = resp'.items[1][1]
               /\ \A i \in 1..Len(store'[cat]) :
                     store'[cat][i].id = resp'.ids[1]
                     => store'[cat][i].project_id = pid ]_vars

BatchOps ==
    {"add_documentation_items", "add_question_sql_pairs", "add_ddl_statements"}

BatchCategory(op) ==
    CASE op = "add_question_sql_pairs" -> "sql"
      [] op = "add_ddl_statements" -> "ddl"
      [] OTHER -> "documentation"

\* the category cat has grown by the first n items of the request, in the
\* order of the request, for project pid, and nothing else has changed
GrownBy(cat, items, n, pid) ==
    /\ Len(store'[cat]) = Len(store[cat]) + n
    /\ \A k \in 1..Len(store[cat]) : store'[cat][k] = store[cat][k]
    /\ \A k \in 1..n :
          LET r == store'[cat][Len(store[cat]) + k]
          IN  /\ r.text = items[k][1] /\ r.sql = items[k][2]
              /\ r.project_id = pid
    /\ \A other \in Categories \ {cat} : store'[other] = store[other]

\* C30: a batch for an existing project that is answered 200 has stored
\* its items in the order of the request and returns their ids in that
\* order; one answered 500 has stored the items before the one that
\* failed, made no call for the items after it, and returns no ids; a
\* batch for a project without a row is answered 404 and stores nothing.
C30_BatchAdd ==
    [][ resp'.op \in BatchOps
        => LET cat == BatchCategory(resp'.op)
               items == resp'.items
               pid == resp'.project
           IN  IF pid \notin projects
               THEN resp'.status = 404 /\ store' = store
               ELSE \/ /\ resp'.status = 200
                       /\ GrownBy(cat, items, Len(items), pid)
                       /\ resp'.embeds = Len(items)
                       /\ Len(resp'.ids) = Len(items)
                       /\ \A k \in 1..Len(items) :
                             store'[cat][Len(store[cat]) + k].id = resp'.ids[k]
                    \/ /\ resp'.status = 500
                       /\ \E i \in 1..Len(items) :
                             /\ GrownBy(cat, items, i - 1, pid)
                             /\ resp'.embeds = i ]_vars

\* a batch of two items whose second item failed: answered 500, the
\* first item stored
C30_Witness ==
    /\ resp.op \in BatchOps
    /\ resp.status = 500
    /\ Len(resp.items) = 2
    /\ resp.embeds = 2
    /\ \E i \in 1..Len(store[BatchCategory(resp.op)]) :
          /\ store[BatchCategory(resp.op)][i].text = resp.items[1][1]
          /\ store[BatchCategory(resp.op)][i].project_id = resp.project
====
